---- MODULE Spec2Model ----
(***************************************************************************)
(* xlwings-rpc: the JSON-RPC 2.0 dispatch core (server.py), the error      *)
(* mapper (utils/errors.py) and the serialization core                    *)
(* (utils/converters.py), as a state machine.                             *)
(*                                                                         *)
(* Python values are records tagged by their type in field t.  Python     *)
(* strings are TLA+ strings; the code's substring tests and the text it    *)
(* writes are computed on their characters (Len, SubSeq, \o).              *)
(***************************************************************************)
EXTENDS Integers, Sequences, FiniteSets, TLC

VARIABLES
    pc,            \* position of handle_rpc: "idle", "single", "batch", "done"
    request_data,  \* the parsed request body (handle_rpc, line 165)
    tasks,         \* one record per process_request coroutine
    ready,         \* the event loop's FIFO of tasks that have not run yet
    http,          \* the Response handle_rpc returned
    exc_in,        \* handle_exception: the arguments of the call under test
    exc_out,       \* handle_exception: the envelope it returned
    ser_in,        \* to_serializable: the object of the call under test
    ser_out,       \* to_serializable: what the call did (return or raise)
    chart_in,      \* ChartAdapter: the arguments and host of the call under test
    chart_out      \* ChartAdapter: what the call did so far

vars ==
    <<pc, request_data, tasks, ready, http, exc_in, exc_out, ser_in, ser_out,
      chart_in, chart_out>>

\* the variables of the calls checked on their own
call_vars == <<exc_in, exc_out, ser_in, ser_out, chart_in, chart_out>>

(***************************************************************************)
(* Bounds of the model.                                                    *)
(***************************************************************************)
MaxBatch == 2      \* longest batch array sent to /rpc
MaxId == 2         \* request ids are 1..MaxId

(***************************************************************************)
(* Message texts.                                                          *)
(***************************************************************************)
\* str(e) of the exceptions of the model, by the place that raises them:
\* the adapters, the handlers' argument binding and params reads, the
\* attribute reads of converters.py, pandas and the interpreter.
TXT ==
    [
     CIRCULAR |-> "Circular reference detected",
     CHART_MISSING |-> "Chart 'c1' not found",
     SET_TYPE_FAILED |-> "Failed to set chart type: boom",
     SET_TYPE_CHART_MISSING |-> "Failed to set chart type: Chart not found",
     NO_APP |-> "No Excel application found with PID 1",
     LOWER_CHART_MISSING |-> "chart not found",
     UPPER_CHART_TYPE |-> "Invalid Chart Type",
     FILE_MISSING |-> "File not found: /x.xlsx",
     REVERSED |-> "not found: Chart",
     KEY |-> "'address'",
     ARGS |-> "missing 1 required positional argument: 'params'",
     EXTRA_ARGS |-> "takes 0 positional arguments but 1 was given",
     INDICES |-> "list indices must be integers or slices, not str",
     UNHASHABLE |-> "unhashable type: 'list'",
     HOST |-> "Excel is not responding",
     NO_GET |-> "'list' object has no attribute 'get'",
     QUIT_FAILED |-> "Failed to quit Excel application: No Excel application found with PID 1. Kill attempt also failed: local variable 'app' referenced before assignment",
     MISSING_VALUE |-> "'k.missing_value'",
     RECURSION |-> "maximum recursion depth exceeded",
     OPEN_FAILED |-> "Failed to open workbook '/x.xlsx': boom",
     KEY_TYPE |-> "keys must be str, int, float, bool or None",
     SHAPE |-> "Shape of passed values is (2, 1), indices imply (1, 1)"]

(***************************************************************************)
(* Python values.                                                          *)
(***************************************************************************)
None == [t |-> "None"]
PyBool(b) == [t |-> "bool", b |-> b]
PyInt(i) == [t |-> "int", i |-> i]
PyStr(s) == [t |-> "str", s |-> s]
PyList(xs) == [t |-> "list", xs |-> xs]
PyTuple(xs) == [t |-> "tuple", xs |-> xs]
PyDict(d) == [t |-> "dict", d |-> d]
\* a dict some key of which is no str: d maps the keys, as Python values
\* (PyInt(1), PyStr("a"), None ...), to the values
PyDictOf(d) == [t |-> "dict", keyed |-> TRUE, d |-> d]
PyDate(iso) == [t |-> "date", iso |-> iso]
PyDateTime(iso) == [t |-> "datetime", iso |-> iso]
PyObject(cls, repr) == [t |-> "object", cls |-> cls, repr |-> repr]

EmptyDict == PyDict(<<>>)
EmptyList == PyList(<<>>)

\* bool(x) for the values a JSON body can hold
Truthy(x) ==
    CASE x.t = "None" -> FALSE
      [] x.t = "bool" -> x.b
      [] x.t = "int" -> x.i # 0
      [] x.t = "str" -> x.s # ""
      [] x.t \in {"list", "tuple"} -> Len(x.xs) > 0
      [] x.t = "dict" -> DOMAIN x.d # {}
      [] OTHER -> TRUE

\* hash(x) succeeds: lists and dicts are unhashable
Hashable(x) == x.t \notin {"list", "dict"}

\* key in d, for a str key
HasKey(d, key) ==
    IF "keyed" \in DOMAIN d THEN PyStr(key) \in DOMAIN d.d
    ELSE key \in DOMAIN d.d

\* d.get(key) and d.get(key, default), for a str key
GetOr(d, key, default) ==
    IF ~HasKey(d, key) THEN default
    ELSE IF "keyed" \in DOMAIN d THEN d.d[PyStr(key)]
    ELSE d.d[key]
Get(d, key) == GetOr(d, key, None)

\* needle in text
Contains(text, needle) ==
    \E k \in 0..(Len(text) - Len(needle)) :
        SubSeq(text, k + 1, k + Len(needle)) = needle

(***************************************************************************)
(* utils/errors.py                                                         *)
(***************************************************************************)
PARSE_ERROR == -32700
INVALID_REQUEST == -32600
METHOD_NOT_FOUND == -32601
INVALID_PARAMS == -32602
INTERNAL_ERROR == -32603

EXCEL_NOT_FOUND == -32000
WORKBOOK_NOT_FOUND == -32001
SHEET_NOT_FOUND == -32002
RANGE_ERROR == -32003
EXCEL_ERROR == -32004
PERMISSION_ERROR == -32005
TIMEOUT_ERROR == -32006
CHART_NOT_FOUND == -32007
CHART_TYPE_ERROR == -32008

ErrorCodes ==
    {PARSE_ERROR, INVALID_REQUEST, METHOD_NOT_FOUND, INVALID_PARAMS,
     INTERNAL_ERROR, EXCEL_NOT_FOUND, WORKBOOK_NOT_FOUND, SHEET_NOT_FOUND,
     RANGE_ERROR, EXCEL_ERROR, PERMISSION_ERROR, TIMEOUT_ERROR,
     CHART_NOT_FOUND, CHART_TYPE_ERROR}

ERROR_MESSAGES ==
    [c \in ErrorCodes |->
        CASE c = PARSE_ERROR -> "Parse error"
          [] c = INVALID_REQUEST -> "Invalid Request"
          [] c = METHOD_NOT_FOUND -> "Method not found"
          [] c = INVALID_PARAMS -> "Invalid params"
          [] c = INTERNAL_ERROR -> "Internal error"
          [] c = EXCEL_NOT_FOUND -> "Excel application not found"
          [] c = WORKBOOK_NOT_FOUND -> "Workbook not found"
          [] c = SHEET_NOT_FOUND -> "Sheet not found"
          [] c = RANGE_ERROR -> "Range error"
          [] c = EXCEL_ERROR -> "Excel error"
          [] c = PERMISSION_ERROR -> "Permission denied"
          [] c = TIMEOUT_ERROR -> "Operation timed out"
          [] c = CHART_NOT_FOUND -> "Chart not found"
          [] c = CHART_TYPE_ERROR -> "Invalid chart type"]

\* "no argument given" for the optional message of create_error_response
NoMessage == "<None>"

\* create_error_response that fills every field of JsonRpcResponse
create_error_response_all_fields(code, message, data, id) ==
    [jsonrpc |-> "2.0", result |-> None,
     error |-> [code |-> code,
                message |-> IF message = NoMessage
                            THEN ERROR_MESSAGES[code] ELSE message],
     id |-> id]

\* create_error_response(code, message, data, id)
create_error_response(code, message, data, id) ==
    LET msg == IF message = NoMessage
               THEN (IF code \in DOMAIN ERROR_MESSAGES
                     THEN ERROR_MESSAGES[code] ELSE "Unknown error")
               ELSE message
        error == IF data # None
                 THEN [code |-> code, message |-> msg, data |-> data]
                 ELSE [code |-> code, message |-> msg]
    IN  [jsonrpc |-> "2.0", error |-> error, id |-> id]

\* Exception classes and their direct base class (Python's hierarchy; the
\* xlwings classes derive from XlwingsError).
ExcBase ==
    [XlwingsError |-> "Exception",
     NoSuchObjectError |-> "XlwingsError",
     OSError |-> "Exception",
     ConnectionError |-> "OSError",
     ConnectionRefusedError |-> "ConnectionError",
     FileNotFoundError |-> "OSError",
     PermissionError |-> "OSError",
     TimeoutError |-> "OSError",
     ValueError |-> "Exception",
     UnicodeError |-> "ValueError",
     KeyError |-> "Exception",
     TypeError |-> "Exception",
     AttributeError |-> "Exception",
     RuntimeError |-> "Exception",
     RecursionError |-> "RuntimeError",
     Exception |-> "BaseException"]

ExcClasses == DOMAIN ExcBase \ {"Exception"}

RECURSIVE IsSubclass(_, _)
IsSubclass(cls, base) ==
    \/ cls = base
    \/ cls \in DOMAIN ExcBase /\ IsSubclass(ExcBase[cls], base)

\* isinstance that compares the exact class: type(exception) is cls
isinstance_exact(exception, cls) == exception.cls = cls

\* isinstance(exception, cls)
isinstance(exception, cls) == IsSubclass(exception.cls, cls)

\* An exception is its class and str(exception)
Exc(cls, msg) == [cls |-> cls, msg |-> msg]

\* traceback.format_exc(): a text that names the file of every frame in
\* double quotes (its line breaks are left out)
Traceback ==
    [t |-> "dict",
     d |-> [traceback |-> PyStr("Traceback (most recent call last): "
                \o "File \"server.py\", line 114, in process_request")]]

\* value_error_code with the two message tests in the other order
value_error_code_type_first(message) ==
    IF Contains(message, "chart type")
    THEN CHART_TYPE_ERROR
    ELSE IF Contains(message, "Chart")
            /\ Contains(message, "not found")
    THEN CHART_NOT_FOUND
    ELSE INVALID_PARAMS

\* handle_exception, lines 112-120: the code of a ValueError with this text
value_error_code(message) ==
    IF Contains(message, "Chart") /\ Contains(message, "not found")
    THEN CHART_NOT_FOUND
    ELSE IF Contains(message, "chart type")
    THEN CHART_TYPE_ERROR
    ELSE INVALID_PARAMS

\* classify that reports a failed read of params as invalid params
classify_params_errors(exception) ==
    IF exception.cls \in {"KeyError", "TypeError", "AttributeError"}
    THEN [code |-> INVALID_PARAMS, message |-> exception.msg]
    ELSE [code |-> INTERNAL_ERROR, message |-> "Internal error: " \o exception.msg]

\* handle_exception, lines 103-130: the (code, message) classification
classify(exception) ==
    IF isinstance(exception, "XlwingsError")
    THEN [code |-> EXCEL_ERROR, message |-> exception.msg]
    ELSE IF isinstance(exception, "ConnectionError")
    THEN [code |-> EXCEL_NOT_FOUND, message |-> "Failed to connect to Excel"]
    ELSE IF isinstance(exception, "FileNotFoundError")
    THEN [code |-> WORKBOOK_NOT_FOUND,
          message |-> "File not found: " \o exception.msg]
    ELSE IF isinstance(exception, "ValueError")
    THEN [code |-> value_error_code(exception.msg), message |-> exception.msg]
    ELSE IF isinstance(exception, "PermissionError")
    THEN [code |-> PERMISSION_ERROR, message |-> exception.msg]
    ELSE IF isinstance(exception, "TimeoutError")
    THEN [code |-> TIMEOUT_ERROR, message |-> "Operation timed out"]
    ELSE [code |-> INTERNAL_ERROR, message |-> "Internal error: " \o exception.msg]

\* handle_exception(exception, id, include_traceback)
handle_exception(exception, id, include_traceback) ==
    LET c == classify(exception)
        data == IF include_traceback THEN Traceback ELSE None
    IN  create_error_response(c.code, c.message, data, id)

(***************************************************************************)
(* utils/converters.py                                                     *)
(***************************************************************************)
\* numpy scalars (np.int32, np.float64, np.bool_ ...), floats by their
\* repr, arrays by their cells (a cell of a 2-D array is a row array).
PyFloat(r) == [t |-> "float", r |-> r]
NpInteger(bits, i) == [t |-> "np.integer", bits |-> bits, i |-> i]
NpFloating(bits, r) == [t |-> "np.floating", bits |-> bits, r |-> r]
NpBool(b) == [t |-> "np.bool_", b |-> b]
NdArray(cells) == [t |-> "ndarray", cells |-> cells]

\* pandas tables: row labels, column labels, the rows of cells
DataFrame(index, columns, values) ==
    [t |-> "DataFrame", index |-> index, columns |-> columns,
     values |-> values]
Series(index, values) == [t |-> "Series", index |-> index, values |-> values]

\* An item of a list, or a value of a dict, that is a container enclosing
\* it: up = 1 is the container that holds the item, 2 the one around it.
Ref(up) == [t |-> "ref", up |-> up]

\* isinstance(obj, (bool, int, float, str)) or obj is None: np.float64 is a
\* subclass of float; the other numpy scalars are subclasses of none of them
IsPrimitive(obj) ==
    \/ obj.t \in {"None", "bool", "int", "float", "str"}
    \/ obj.t = "np.floating" /\ obj.bits = 64

\* x.item(): the Python scalar of a numpy scalar
item(x) ==
    CASE x.t = "np.integer" -> PyInt(x.i)
      [] x.t = "np.floating" -> PyFloat(x.r)
      [] x.t = "np.bool_" -> PyBool(x.b)
      [] OTHER -> x

\* ndarray.tolist(), Index.tolist()
RECURSIVE tolist(_)
tolist(cells) ==
    PyList([j \in 1..Len(cells) |->
        IF cells[j].t = "ndarray"
        THEN tolist(cells[j].cells)
        ELSE item(cells[j])])

\* str(obj)
py_str(obj) ==
    CASE obj.t = "str" -> obj
      [] obj.t = "np.integer" -> PyStr(ToString(obj.i))
      [] obj.t = "np.floating" -> PyStr(obj.r)
      [] obj.t = "np.bool_" -> PyStr(IF obj.b THEN "True" ELSE "False")
      [] OTHER -> PyStr(obj.repr)

\* A call that raises instead of returning
Raise(e) == [t |-> "raise", exc |-> e]
Raised(r) == r.t = "raise"

\* What a comprehension over results gives: the first exception raised
FirstRaised(rs) ==
    rs[CHOOSE j \in DOMAIN rs :
          /\ Raised(rs[j])
          /\ \A k \in DOMAIN rs : Raised(rs[k]) => j <= k]

\* A host handle is its type and, per attribute read, what the read gives:
\* a value, or an exception of the platform binding.
AttrValue(v) == [ok |-> TRUE, val |-> v]
AttrRaises(e) == [ok |-> FALSE, exc |-> e]
AttrFails == AttrRaises(Exc("Exception", TXT.HOST))
Handle(type, attrs) == [t |-> type, attrs |-> attrs]

\* try: data[key] = <read> / except Exception: data[key] = sentinel
Guarded(read, sentinel) == IF read.ok THEN read.val ELSE sentinel

\* lines 84-97: the calculation read of an App
calculation_guard(read) ==
    IF read.ok
    THEN py_str(read.val)
    ELSE IF isinstance(read.exc, "KeyError")
            /\ ~Contains(read.exc.msg, "k.missing_value")
    THEN Raise(read.exc)
    ELSE PyStr("unknown")

\* line 68: the pid read of an App, outside every try
pid_read(read) == IF read.ok THEN read.val ELSE Raise(read.exc)

\* lines 67-110
app_data(obj) ==
    LET a == obj.attrs
        id == pid_read(a["pid"])
        calculation == calculation_guard(a["calculation"])
    IN  IF Raised(id) THEN id
        ELSE IF Raised(calculation) THEN calculation
        ELSE PyDict(
            [id |-> id,
             version |-> Guarded(a["version"], PyStr("unknown")),
             visible |-> Guarded(a["visible"], None),
             calculation |-> calculation,
             screen_updating |-> Guarded(a["screen_updating"], None),
             display_alerts |-> Guarded(a["display_alerts"], None)])

\* lines 113-146; path reads obj.fullname again
book_data(obj) ==
    LET a == obj.attrs
    IN  PyDict(
            [name |-> Guarded(a["name"], PyStr("unknown")),
             fullname |-> Guarded(a["fullname"], None),
             path |-> Guarded(a["fullname"], None),
             app_id |-> IF a["app"].ok /\ Truthy(a["app"].val)
                        THEN Guarded(a["app.pid"], None)
                        ELSE None,
             sheets |-> Guarded(a["sheets"], EmptyList)])

\* lines 149-176
sheet_data(obj) ==
    LET a == obj.attrs
    IN  PyDict(
            [name |-> Guarded(a["name"], PyStr("unknown")),
             book_name |-> Guarded(a["book.name"], None),
             index |-> Guarded(a["index"], None),
             used_range |-> IF a["used_range.address"].ok
                            THEN py_str(a["used_range.address"].val)
                            ELSE None])

\* The keys of the attribute map of a Range, and the two read through
\* to_serializable (value, formula).
RangeKeys ==
    {"address", "sheet_name", "book_name", "value", "formula", "shape",
     "row", "column", "row_height", "column_width"}
RangeSerializedKeys == {"value", "formula"}
RangeSentinel(key) == IF key = "address" THEN PyStr("unknown") ELSE None

\* lines 262-271: the keys the parent block of a Chart sets
chart_parent_data(a) ==
    IF ~a["parent"].ok
    THEN [sheet_name |-> None, book_name |-> None]
    ELSE IF ~Truthy(a["parent"].val)
    THEN <<>>
    ELSE IF ~a["parent.name"].ok \/ ~a["parent.book"].ok
    THEN [sheet_name |-> None, book_name |-> None]
    ELSE IF ~Truthy(a["parent.book"].val)
    THEN [sheet_name |-> a["parent.name"].val]
    ELSE IF ~a["parent.book.name"].ok
    THEN [sheet_name |-> None, book_name |-> None]
    ELSE [sheet_name |-> a["parent.name"].val,
          book_name |-> a["parent.book.name"].val]

\* lines 245-296
chart_data(obj) ==
    LET a == obj.attrs
    IN  PyDict(
            [name |-> Guarded(a["name"], PyStr("unknown")),
             chart_type |-> Guarded(a["chart_type"], PyStr("unknown")),
             left |-> Guarded(a["left"], None),
             top |-> Guarded(a["top"], None),
             width |-> Guarded(a["width"], None),
             height |-> Guarded(a["height"], None)]
            @@ chart_parent_data(a))

\* The deepest nesting of to_serializable calls the interpreter allows
\* (sys.getrecursionlimit(), scaled to the values of the model).
RecursionLimit == 5

\* to_serializable(obj) as the call number depth of a nest of calls; env
\* holds the containers around obj, innermost first
RECURSIVE to_serializable_call(_, _, _)
to_serializable_call(obj, env, depth) ==
    IF depth > RecursionLimit
    THEN Raise(Exc("RecursionError", TXT.RECURSION))
    ELSE
    CASE obj.t = "ref" ->
            to_serializable_call(env[obj.up],
                                 SubSeq(env, obj.up + 1, Len(env)), depth)
      [] IsPrimitive(obj) -> obj
      [] obj.t \in {"datetime", "date"} -> PyStr(obj.iso)
      [] obj.t \in {"list", "tuple"} ->
            LET rs == [j \in 1..Len(obj.xs) |->
                        to_serializable_call(obj.xs[j], <<obj>> \o env,
                                             depth + 1)]
            IN  IF \E j \in DOMAIN rs : Raised(rs[j])
                THEN FirstRaised(rs)
                ELSE PyList(rs)
      [] obj.t = "dict" ->
            LET rs == [k \in DOMAIN obj.d |->
                        to_serializable_call(obj.d[k], <<obj>> \o env,
                                             depth + 1)]
            IN  IF \E k \in DOMAIN rs : Raised(rs[k])
                THEN rs[CHOOSE k \in DOMAIN rs : Raised(rs[k])]
                ELSE [obj EXCEPT !.d = rs]
      [] obj.t = "ndarray" ->
            to_serializable_call(tolist(obj.cells), env, depth + 1)
      [] obj.t = "DataFrame" ->
            LET index == to_serializable_call(tolist(obj.index), env,
                                              depth + 1)
                columns == to_serializable_call(tolist(obj.columns), env,
                                                depth + 1)
                data == to_serializable_call(tolist(obj.values), env,
                                             depth + 1)
            IN  IF Raised(index) THEN index
                ELSE IF Raised(columns) THEN columns
                ELSE IF Raised(data) THEN data
                ELSE PyDict([type |-> PyStr("dataframe"), index |-> index,
                             columns |-> columns, data |-> data])
      [] obj.t = "Series" ->
            LET index == to_serializable_call(tolist(obj.index), env,
                                              depth + 1)
                data == to_serializable_call(tolist(obj.values), env,
                                             depth + 1)
            IN  IF Raised(index) THEN index
                ELSE IF Raised(data) THEN data
                ELSE PyDict([type |-> PyStr("series"), index |-> index,
                             data |-> data])
      [] obj.t = "App" -> app_data(obj)
      [] obj.t = "Book" -> book_data(obj)
      [] obj.t = "Sheet" -> sheet_data(obj)
      [] obj.t = "Range" ->
            PyDict([k \in RangeKeys |->
                IF obj.attrs[k].ok
                THEN IF k \in RangeSerializedKeys
                     THEN LET r == to_serializable_call(obj.attrs[k].val,
                                                        <<>>, depth + 1)
                          IN  IF Raised(r) THEN RangeSentinel(k) ELSE r
                     ELSE obj.attrs[k].val
                ELSE RangeSentinel(k)])
      [] obj.t = "Chart" -> chart_data(obj)
      [] OTHER -> py_str(obj)

to_serializable(obj) == to_serializable_call(obj, <<>>, 1)

\* pd.DataFrame(data=, index=, columns=) for a list of rows
pd_DataFrame(data, index, columns) ==
    IF \/ Len(data.xs) # Len(index.xs)
       \/ \E j \in 1..Len(data.xs) : Len(data.xs[j].xs) # Len(columns.xs)
    THEN Raise(Exc("ValueError", TXT.SHAPE))
    ELSE DataFrame(index.xs, columns.xs,
                   [j \in 1..Len(data.xs) |-> NdArray(data.xs[j].xs)])

\* pd.Series(data=, index=)
pd_Series(data, index) ==
    IF Len(data.xs) # Len(index.xs)
    THEN Raise(Exc("ValueError", TXT.SHAPE))
    ELSE Series(index.xs, data.xs)

\* the test of lines 322 and 330
is_tagged(value, type, keys) ==
    /\ Get(value, "type") = PyStr(type)
    /\ \A k \in keys : HasKey(value, k)

\* from_json_value with index and columns exchanged
restore_dataframe_transposed(value) ==
    pd_DataFrame(value.d["data"], value.d["columns"], value.d["index"])

\* lines 323-327
restore_dataframe(value) ==
    pd_DataFrame(value.d["data"], value.d["index"], value.d["columns"])

RECURSIVE from_json_value(_)
from_json_value(value) ==
    CASE IsPrimitive(value) -> value
      [] value.t = "list" ->
            LET rs == [j \in 1..Len(value.xs) |->
                        from_json_value(value.xs[j])]
            IN  IF \E j \in DOMAIN rs : Raised(rs[j])
                THEN FirstRaised(rs)
                ELSE PyList(rs)
      [] value.t = "dict" ->
            IF is_tagged(value, "dataframe", {"data", "columns", "index"})
            THEN restore_dataframe(value)
            ELSE IF is_tagged(value, "series", {"data", "index"})
            THEN pd_Series(value.d["data"], value.d["index"])
            ELSE LET rs == [k \in DOMAIN value.d |->
                              from_json_value(value.d[k])]
                 IN  IF \E k \in DOMAIN rs : Raised(rs[k])
                     THEN rs[CHOOSE k \in DOMAIN rs : Raised(rs[k])]
                     ELSE [value EXCEPT !.d = rs]
      [] OTHER -> value

(***************************************************************************)
(* utils/json_encoder.py                                                   *)
(***************************************************************************)
\* sep.join(parts)
RECURSIVE JoinWith(_, _)
JoinWith(parts, sep) ==
    IF parts = <<>> THEN ""
    ELSE IF Len(parts) = 1 THEN parts[1]
    ELSE parts[1] \o sep \o JoinWith(Tail(parts), sep)

\* The keys of a dict in the order its text shows them.  Python keeps the
\* order of insertion, which the values of the model do not record; the
\* order changes no value a reader of the text decodes.
RECURSIVE KeyOrder(_)
KeyOrder(keys) ==
    IF keys = {} THEN <<>>
    ELSE LET k == CHOOSE x \in keys : TRUE
         IN  <<k>> \o KeyOrder(keys \ {k})

\* s with a backslash before each of its characters that is in special
RECURSIVE Escaped(_, _)
Escaped(s, special) ==
    IF Len(s) <= 1
    THEN (IF s \in special THEN "\\" \o s ELSE s)
    ELSE LET half == Len(s) \div 2
         IN  Escaped(SubSeq(s, 1, half), special)
                \o Escaped(SubSeq(s, half + 1, Len(s)), special)

\* json's text of a string: quoted, with " and \ escaped
json_string(s) == "\"" \o Escaped(s, {"\"", "\\"}) \o "\""

\* lines 44-67: the conversions tried when to_serializable returned obj
default_unconverted(obj) ==
    CASE obj.t \in {"datetime", "date"} -> PyStr(obj.iso)
      [] obj.t = "object" /\ obj.cls = "VersionNumber" -> py_str(obj)
      [] obj.t = "np.integer" -> PyInt(obj.i)
      [] obj.t = "np.floating" -> PyFloat(obj.r)
      [] obj.t = "np.bool_" -> PyBool(obj.b)
      [] OTHER -> py_str(obj)

\* XlwingsRpcJSONEncoder.default
default(obj) ==
    LET result == to_serializable(obj)
    IN  IF Raised(result) THEN result
        ELSE IF result = obj THEN default_unconverted(obj)
        ELSE result

\* the name json.dumps writes for a key of a dict: a str, the text of an
\* int, float, bool or None, TypeError for every other key
json_key(k) ==
    CASE k.t = "str" -> k
      [] k.t = "None" -> PyStr("null")
      [] k.t = "bool" -> PyStr(IF k.b THEN "true" ELSE "false")
      [] k.t = "int" -> PyStr(ToString(k.i))
      [] k.t = "float" -> PyStr(k.r)
      [] OTHER -> Raise(Exc("TypeError", TXT.KEY_TYPE))

\* json.dumps(obj, cls=XlwingsRpcJSONEncoder): the text of the types json
\* writes itself (subclasses of float included), default for the others,
\* ValueError for a container inside itself
RECURSIVE encode(_)
encode(o) ==
    CASE o.t = "None" -> PyStr("null")
      [] o.t = "bool" -> PyStr(IF o.b THEN "true" ELSE "false")
      [] o.t = "int" -> PyStr(ToString(o.i))
      [] o.t = "float" \/ (o.t = "np.floating" /\ o.bits = 64) -> PyStr(o.r)
      [] o.t = "str" -> PyStr(json_string(o.s))
      [] o.t \in {"list", "tuple"} ->
            LET rs == [j \in 1..Len(o.xs) |-> encode(o.xs[j])]
            IN  IF \E j \in DOMAIN rs : Raised(rs[j])
                THEN FirstRaised(rs)
                ELSE PyStr("[" \o JoinWith([j \in DOMAIN rs |-> rs[j].s],
                                           ", ") \o "]")
      [] o.t = "dict" ->
            LET rs == [k \in DOMAIN o.d |-> encode(o.d[k])]
                keys == KeyOrder(DOMAIN o.d)
                names == [j \in DOMAIN keys |->
                            IF "keyed" \in DOMAIN o THEN json_key(keys[j])
                            ELSE PyStr(keys[j])]
            IN  IF \E j \in DOMAIN names : Raised(names[j])
                THEN FirstRaised(names)
                ELSE IF \E k \in DOMAIN rs : Raised(rs[k])
                THEN rs[CHOOSE k \in DOMAIN rs : Raised(rs[k])]
                ELSE PyStr("{" \o JoinWith(
                        [j \in DOMAIN keys |->
                            json_string(names[j].s) \o ": " \o rs[keys[j]].s],
                        ", ") \o "}")
      [] o.t = "ref" -> Raise(Exc("ValueError", TXT.CIRCULAR))
      [] OTHER ->
            LET r == default(o)
            IN  IF Raised(r) THEN r ELSE encode(r)

\* json_dumps, lines 82-87; the text of the fallback is written in ASCII
json_dumps(obj) ==
    LET text == encode(obj)
    IN  IF Raised(text)
        THEN PyStr("{\"error\": " \o json_string("error: " \o text.exc.msg)
                   \o "}")
        ELSE text

(***************************************************************************)
(* server.py: the method registry                                          *)
(***************************************************************************)
\* Each registered name with how its handler declares params:
\* "none" (no parameter), "optional" (params = None), "required".
method_dispatcher ==
    [m \in {"app.list", "app.get", "app.create", "app.quit",
            "app.set_calculation", "app.get_calculation", "app.get_books",
            "book.list", "book.get", "book.open", "book.create",
            "book.close", "book.save", "book.get_sheets",
            "sheet.list", "sheet.get", "sheet.add", "sheet.delete",
            "sheet.rename", "sheet.clear", "sheet.get_used_range",
            "sheet.activate",
            "range.get", "range.get_value", "range.set_value",
            "range.get_formula", "range.set_formula", "range.clear",
            "range.get_as_dataframe", "range.set_dataframe"} |->
        IF m = "app.list" THEN "none"
        ELSE IF m \in {"book.list", "book.create"} THEN "optional"
        ELSE "required"]

\* Registered that takes every string for a registered name
Registered_any_name(method) == method.t = "str"

\* method in method_dispatcher, for a hashable method
Registered(method) == method.t = "str" /\ method.s \in DOMAIN method_dispatcher

(***************************************************************************)
(* methods/*.py and adapters/*.py: the handlers the requests of the model  *)
(* name.                                                                   *)
(***************************************************************************)
Methods ==
    {"app.list", "book.list", "app.quit", "book.open", "sheet.get",
     "range.get"}

\* methods/chart.py: the names of the methods of ChartMethods
ChartMethodNames ==
    {"chart.list", "chart.get", "chart.add", "chart.delete",
     "chart.set_source_data", "chart.set_chart_type", "chart.export_as_pdf",
     "chart.export_as_picture", "chart.customize"}

\* params["key"] reads of a handler
RequiredKeys(m) ==
    CASE m = "app.quit" -> {"pid"}
      [] m = "book.open" -> {"path"}
      [] m = "sheet.get" -> {"book", "sheet"}
      [] m = "range.get" -> {"book", "sheet", "address"}
      [] OTHER -> {}

\* The range a range.get call can find on the host.
RangeA1(value) ==
    Handle("Range",
        [address |-> AttrValue(PyStr("$A$1")),
         sheet_name |-> AttrValue(PyStr("Sheet1")),
         book_name |-> AttrValue(PyStr("Book1")),
         value |-> AttrValue(value),
         formula |-> AttrValue(PyStr("")),
         shape |-> AttrValue(PyTuple(<<PyInt(1), PyInt(1)>>)),
         row |-> AttrValue(PyInt(1)),
         column |-> AttrValue(PyInt(1)),
         row_height |-> AttrFails,
         column_width |-> AttrValue(PyInt(8))])

\* The workbook a book.open call can open on the host.
BookB1 ==
    Handle("Book",
        [k \in {"name", "fullname", "app", "app.pid", "sheets"} |->
            CASE k = "name" -> AttrValue(PyStr("x.xlsx"))
              [] k = "fullname" -> AttrValue(PyStr("/x.xlsx"))
              [] k = "app" -> AttrValue(PyObject("App", "<App [excel] 1>"))
              [] k = "app.pid" -> AttrValue(PyInt(1))
              [] k = "sheets" -> AttrValue(PyList(<<PyStr("Sheet1")>>))])

\* The sheet a sheet.get call can find on the host.
SheetS1 ==
    Handle("Sheet",
        [k \in {"name", "book.name", "index", "used_range.address"} |->
            CASE k = "name" -> AttrValue(PyStr("Sheet1"))
              [] k = "book.name" -> AttrValue(PyStr("x.xlsx"))
              [] k = "index" -> AttrValue(PyInt(1))
              [] k = "used_range.address" -> AttrValue(PyStr("$A$1:$B$2"))])

\* What the adapter call of a handler can return.
AdapterReturns(m) ==
    CASE m = "app.list" -> {EmptyList}
      [] m = "book.list" -> {EmptyList}
      [] m = "app.quit" -> {PyBool(TRUE)}
      [] m = "book.open" -> {to_serializable(BookB1)}
      [] m = "sheet.get" -> {to_serializable(SheetS1)}
      [] m = "range.get" ->
            {to_serializable(RangeA1(v)) :
                v \in {PyInt(1), PyDateTime("2024-01-02T03:04:05")}}

\* open_book, lines 107-108: os.path.exists(path) is false
open_book_missing_file == Exc("ValueError", TXT.FILE_MISSING)

\* quit_app, lines 105-108 and 122-130: xw.apps[pid] raises KeyError, the
\* ValueError raised for it is caught by the outer handler, whose
\* app.kill() fails on the unbound app
quit_app_unknown_pid == Exc("ValueError", TXT.QUIT_FAILED)

\* get_sheet_failure that lets the failure of the lookup through
get_sheet_failure_unwrapped(params, cause) == Exc("Exception", cause)

\* get_sheet, lines 87-88: every failure of the lookup, str(e) = cause,
\* is re-raised as ValueError with the identifiers of the request
get_sheet_failure(params, cause) ==
    Exc("ValueError",
        "Failed to get sheet '" \o params.d["sheet"].s
            \o "' from workbook '" \o params.d["book"].s \o "': " \o cause)

\* get_range, lines 60-61
get_range_failure(params, cause) ==
    Exc("ValueError",
        "Failed to get range '" \o params.d["address"].s
            \o "' from sheet '" \o params.d["sheet"].s
            \o "' in workbook '" \o params.d["book"].s \o "': " \o cause)

\* What the adapter call of a handler can raise: get_apps and get_books
\* (without pid) let a failure of the binding through; quit_app, open_book,
\* get_sheet and get_range re-raise every failure as ValueError.
AdapterRaises(m, params) ==
    CASE m \in {"app.list", "book.list"} ->
            {Exc("XlwingsError", TXT.HOST), Exc("ConnectionError", TXT.HOST)}
      [] m = "app.quit" -> {quit_app_unknown_pid}
      [] m = "book.open" ->
            {open_book_missing_file, Exc("ValueError", TXT.OPEN_FAILED)}
      [] m = "sheet.get" ->
            {get_sheet_failure(params, cause) : cause \in {TXT.NO_APP, TXT.HOST}}
      [] m = "range.get" ->
            {get_range_failure(params, cause) : cause \in {TXT.NO_APP, TXT.HOST}}

\* method_dispatcher[method], then handler(params) or handler(): the lookup
\* fails, the arguments do not fit the declaration, a params[...] read
\* fails, or the adapter is called.
HandlerEntry(m, params) ==
    LET sig == method_dispatcher[m]
        with_params == Truthy(params)
    IN  IF m \notin DOMAIN method_dispatcher
        THEN [kind |-> "raise", called |-> FALSE,
              exc |-> Exc("KeyError", TXT.KEY)]
        ELSE IF with_params /\ sig = "none"
        THEN [kind |-> "raise", called |-> FALSE,
              exc |-> Exc("TypeError", TXT.EXTRA_ARGS)]
        ELSE IF ~with_params /\ sig = "required"
        THEN [kind |-> "raise", called |-> FALSE,
              exc |-> Exc("TypeError", TXT.ARGS)]
        ELSE IF with_params /\ params.t # "dict"
        THEN [kind |-> "raise", called |-> TRUE,
              exc |-> IF RequiredKeys(m) # {}
                      THEN Exc("TypeError", TXT.INDICES)
                      ELSE Exc("AttributeError", TXT.NO_GET)]
        ELSE IF with_params /\ ~(RequiredKeys(m) \subseteq DOMAIN params.d)
        THEN [kind |-> "raise", called |-> TRUE,
              exc |-> Exc("KeyError", TXT.KEY)]
        ELSE [kind |-> "adapter", called |-> TRUE]

(***************************************************************************)
(* The requests of the model.                                              *)
(***************************************************************************)
\* A key the JSON object does not carry
Absent == [t |-> "absent"]

\* The JSON object with the fields that are not Absent
MakeDict(fields) ==
    PyDict([k \in {f \in DOMAIN fields : fields[f] # Absent} |-> fields[k]])

Envelope(j, m, p, i) ==
    MakeDict([jsonrpc |-> j, method |-> m, params |-> p, id |-> i])

FullParams ==
    PyDict([pid |-> PyInt(1), path |-> PyStr("/x.xlsx"),
            book |-> PyStr("Book1"), sheet |-> PyStr("Sheet1"),
            address |-> PyStr("A1")])
PartialParams == PyDict([pid |-> PyInt(1)])
\* a sheet named Chart1 and an address that is none
ChartSheetParams ==
    PyDict([pid |-> PyInt(1), path |-> PyStr("/x.xlsx"),
            book |-> PyStr("Book1"), sheet |-> PyStr("Chart1"),
            address |-> PyStr("not found")])

JsonrpcVals == {Absent, PyStr("2.0"), PyStr("1.0")}
\* method: absent, a registered name, a name of ChartMethods, JSON null,
\* a JSON array
MethodVals ==
    {Absent, None, EmptyList}
    \cup {PyStr(m) : m \in Methods \cup ChartMethodNames}
\* params: absent, null, {}, [], an object with or without the keys the
\* handlers read, a positional array
PositionalParams == PyList(<<PyInt(1)>>)
ParamVals ==
    {Absent, None, EmptyDict, EmptyList, PartialParams, FullParams,
     ChartSheetParams,
     PositionalParams}
Ids == {PyInt(i) : i \in 1..MaxId}
IdVals == {Absent, None} \cup Ids

Requests ==
    {Envelope(j, m, p, i) :
        j \in JsonrpcVals, m \in MethodVals, p \in ParamVals, i \in IdVals}

\* A body that is neither an array nor an object
Scalars == {PyInt(7), PyStr("ping"), None}

SinglePayloads == Requests \cup Scalars

\* The entries of a batch: calls that succeed or fail on the host (book.list
\* without params, range.get with them), an unknown method, an unhashable
\* method, a missing method, a wrong protocol tag, a non-object.
BatchEntries ==
    {Envelope(PyStr("2.0"), m, Absent, i) :
        m \in {PyStr("book.list"), PyStr("chart.list"), EmptyList, Absent},
        i \in {Absent} \cup Ids}
    \cup {Envelope(PyStr("2.0"), PyStr("range.get"), FullParams, i) :
            i \in {Absent} \cup Ids}
    \cup {Envelope(PyStr("1.0"), PyStr("book.list"), Absent, i) :
            i \in {Absent} \cup Ids}
    \cup {PyInt(7)}

RECURSIVE SeqsUpTo(_, _)
SeqsUpTo(S, n) ==
    IF n = 0 THEN {<<>>}
    ELSE LET shorter == SeqsUpTo(S, n - 1)
         IN  shorter \cup {Append(s, x) : s \in shorter, x \in S}

Batches == SeqsUpTo(BatchEntries, MaxBatch)

(***************************************************************************)
(* server.py: process_request                                              *)
(***************************************************************************)
NoExc == [cls |-> "", msg |-> ""]

\* A process_request coroutine: st is "ready" (created, not run),
\* "in_adapter" (inside the adapter call of its handler), "returned" (ret is
\* what it returned) or "raised" (exc left it).  calls counts the runs of
\* the handler body, hres/hval are what the handler did.
NewTask(req) ==
    [req |-> req, st |-> "ready", calls |-> 0, hres |-> "none",
     hval |-> None, exc |-> NoExc, ret |-> None]

\* invalid_envelope that accepts any protocol tag
invalid_envelope_any_version(req) ==
    \/ ~HasKey(req, "jsonrpc")
    \/ ~HasKey(req, "method")

\* line 99
invalid_envelope(req) ==
    \/ ~HasKey(req, "jsonrpc")
    \/ req.d["jsonrpc"] # PyStr("2.0")
    \/ ~HasKey(req, "method")

\* success_response without the test for a notification
success_response_always(request_id, result) ==
    [jsonrpc |-> "2.0", result |-> result, id |-> request_id]

\* lines 116-125
success_response(request_id, result) ==
    IF request_id = None
    THEN None
    ELSE [jsonrpc |-> "2.0", result |-> result, id |-> request_id]

\* failure_response that keeps a notification silent
failure_response_silent(e, request_id) ==
    IF request_id = None THEN None ELSE handle_exception(e, request_id, TRUE)

\* lines 126-129
failure_response(e, request_id) == handle_exception(e, request_id, TRUE)

Returned(task, ret) == [task EXCEPT !.st = "returned", !.ret = ret]

\* process_request from its first line to the adapter call of the handler
process_request(task) ==
    LET req == task.req
    IN  IF req.t # "dict"
        THEN Returned(task,
                 create_error_response(INVALID_REQUEST, NoMessage, None, None))
        ELSE IF invalid_envelope(req)
        THEN Returned(task,
                 create_error_response(INVALID_REQUEST, NoMessage, None,
                                       Get(req, "id")))
        ELSE
        LET request_id == Get(req, "id")
            method == req.d["method"]
            params == GetOr(req, "params", EmptyDict)
        IN  IF ~Hashable(method)
            THEN [task EXCEPT !.st = "raised",
                              !.exc = Exc("TypeError", TXT.UNHASHABLE)]
            ELSE IF ~Registered(method)
            THEN Returned(task,
                     create_error_response(METHOD_NOT_FOUND, NoMessage, None,
                                           request_id))
            ELSE
            LET h == HandlerEntry(method.s, params)
            IN  IF h.kind = "raise"
                THEN [task EXCEPT
                        !.st = "returned",
                        !.calls = IF h.called THEN 1 ELSE 0,
                        !.hres = IF h.called THEN "raised" ELSE "none",
                        !.exc = h.exc,
                        !.ret = failure_response(h.exc, request_id)]
                ELSE [task EXCEPT !.st = "in_adapter", !.calls = 1]

\* the handler of the task returns result
handler_returns(task, result) ==
    [task EXCEPT !.st = "returned", !.hres = "returned", !.hval = result,
                 !.ret = success_response(Get(task.req, "id"), result)]

\* the handler of the task raises e
handler_raises(task, e) ==
    [task EXCEPT !.st = "returned", !.hres = "raised", !.exc = e,
                 !.ret = failure_response(e, Get(task.req, "id"))]

(***************************************************************************)
(* server.py: process_batch_request and handle_rpc                         *)
(***************************************************************************)
\* repr of a str: in double quotes when it holds ' and no ", in single
\* quotes otherwise, the quote and \ escaped
str_repr(s) ==
    LET quote == IF Contains(s, "'") /\ ~Contains(s, "\"")
                 THEN "\"" ELSE "'"
    IN  quote \o Escaped(s, {quote, "\\"}) \o quote

\* repr(obj), which str of a dict or list takes of what it holds
RECURSIVE py_repr(_)
py_repr(obj) ==
    CASE obj.t = "None" -> "None"
      [] obj.t = "bool" -> IF obj.b THEN "True" ELSE "False"
      [] obj.t = "int" -> ToString(obj.i)
      [] obj.t = "float" -> obj.r
      [] obj.t = "str" -> str_repr(obj.s)
      [] obj.t = "list" ->
            "[" \o JoinWith([j \in DOMAIN obj.xs |-> py_repr(obj.xs[j])],
                            ", ") \o "]"
      [] obj.t = "tuple" ->
            "(" \o JoinWith([j \in DOMAIN obj.xs |-> py_repr(obj.xs[j])],
                            ", ")
                \o (IF Len(obj.xs) = 1 THEN "," ELSE "") \o ")"
      [] obj.t = "dict" ->
            LET keys == KeyOrder(DOMAIN obj.d)
            IN  "{" \o JoinWith(
                    [j \in DOMAIN keys |->
                        (IF "keyed" \in DOMAIN obj THEN py_repr(keys[j])
                         ELSE str_repr(keys[j]))
                        \o ": " \o py_repr(obj.d[keys[j]])],
                    ", ") \o "}"
      [] OTHER -> py_str(obj).s

\* str(response) of one response dict, its keys in the order the code
\* inserts them (lines 121-125; errors.py lines 66-80)
response_repr(response) ==
    "{'jsonrpc': " \o str_repr(response.jsonrpc) \o ", "
    \o (IF "error" \in DOMAIN response
        THEN "'error': {'code': " \o ToString(response.error.code)
             \o ", 'message': " \o str_repr(response.error.message)
             \o (IF "data" \in DOMAIN response.error
                 THEN ", 'data': " \o py_repr(response.error.data)
                 ELSE "")
             \o "}"
        ELSE "'result': " \o py_repr(response.result))
    \o ", 'id': " \o py_repr(response.id) \o "}"

\* text.replace(old, new) for one-character old
RECURSIVE replace(_, _, _)
replace(text, old, new) ==
    IF Len(text) <= 1
    THEN (IF text = old THEN new ELSE text)
    ELSE LET half == Len(text) \div 2
         IN  replace(SubSeq(text, 1, half), old, new)
                \o replace(SubSeq(text, half + 1, Len(text)), old, new)

\* lines 186-189 and 194-197: Response(content=
\* str(response_data).replace("'", '"'), media_type="application/json")
NoResponse == [status |-> 0, kind |-> "none", body |-> <<>>, content |-> ""]
NoContent == [status |-> 204, kind |-> "none", body |-> <<>>, content |-> ""]
ObjectBody(envelope) ==
    [status |-> 200, kind |-> "object", body |-> <<envelope>>,
     content |-> replace(response_repr(envelope), "'", "\"")]
ArrayBody(envelopes) ==
    [status |-> 200, kind |-> "array", body |-> envelopes,
     content |-> replace(
        "[" \o JoinWith([j \in DOMAIN envelopes |->
                            response_repr(envelopes[j])], ", ") \o "]",
        "'", "\"")]

\* lines 190-197
parse_error_response ==
    ObjectBody(create_error_response(PARSE_ERROR, NoMessage, None, None))

\* empty_batch_response that answers the empty batch with an empty array
empty_batch_as_array == ArrayBody(<<>>)

\* lines 170-172
empty_batch_response ==
    ObjectBody(create_error_response(INVALID_REQUEST, NoMessage, None, None))

\* drop_notifications that hands the responses over last-finished first
drop_notifications_reversed(responses) ==
    LET kept == SelectSeq(responses, LAMBDA r : r # None)
    IN  [a \in 1..Len(kept) |-> kept[Len(kept) + 1 - a]]

\* line 149
drop_notifications(responses) == SelectSeq(responses, LAMBDA r : r # None)

\* lines 174-177 and 186-189, given what gather returned
batch_response(responses) ==
    LET response_data == drop_notifications(responses)
    IN  IF response_data = <<>> THEN NoContent ELSE ArrayBody(response_data)

\* lines 180-189
single_response(response_data) ==
    IF response_data = None THEN NoContent ELSE ObjectBody(response_data)

Finished(task) == task.st \in {"returned", "raised"}

\* Running for handlers that hand the loop back during the adapter call
Running_never == FALSE

\* A handler is inside its adapter call.  The handlers are coroutines with
\* no await in them and the adapters are plain functions (methods/*.py):
\* the event loop runs nothing else until the call is over.
Running == \E i \in DOMAIN tasks : tasks[i].st = "in_adapter"

\* gather_order that starts the tasks last entry first
gather_order_reversed(n) == [a \in 1..n |-> n + 1 - a]

\* lines 143-146: asyncio.gather makes a task of each coroutine in the
\* order of its arguments and the loop runs them first in, first out
gather_order(n) == [a \in 1..n |-> a]

Init ==
    /\ pc = "idle"
    /\ request_data = None
    /\ tasks = <<>>
    /\ ready = <<>>
    /\ http = NoResponse
    /\ exc_in = None
    /\ exc_out = None
    /\ ser_in = None
    /\ ser_out = None
    /\ chart_in = None
    /\ chart_out = None

\* request.json() raises: the body is not JSON
ReceiveUnparseable ==
    /\ pc = "idle"
    /\ pc' = "done"
    /\ request_data' = [t |-> "unparseable"]
    /\ tasks' = <<>>
    /\ ready' = <<>>
    /\ http' = parse_error_response
    /\ UNCHANGED call_vars

\* a body that is not an array: handle_rpc awaits process_request
ReceiveSingle ==
    /\ pc = "idle"
    /\ \E payload \in SinglePayloads :
        /\ request_data' = payload
        /\ tasks' = <<NewTask(payload)>>
    /\ ready' = <<1>>
    /\ pc' = "single"
    /\ http' = NoResponse
    /\ UNCHANGED call_vars

\* a body that is an array: empty, or gather creates one task per entry
ReceiveBatch ==
    /\ pc = "idle"
    /\ \E batch \in Batches :
        /\ request_data' = PyList(batch)
        /\ IF batch = <<>>
           THEN /\ tasks' = <<>>
                /\ ready' = <<>>
                /\ pc' = "done"
                /\ http' = empty_batch_response
           ELSE /\ tasks' = [i \in 1..Len(batch) |-> NewTask(batch[i])]
                /\ ready' = gather_order(Len(batch))
                /\ pc' = "batch"
                /\ http' = NoResponse
    /\ UNCHANGED call_vars

\* the event loop runs the next task up to its handler's adapter call
TaskStart ==
    /\ pc \in {"single", "batch"}
    /\ ready # <<>>
    /\ ~Running
    /\ LET i == Head(ready)
       IN  tasks' = [tasks EXCEPT ![i] = process_request(tasks[i])]
    /\ ready' = Tail(ready)
    /\ UNCHANGED <<pc, request_data, http, call_vars>>

\* the adapter call returns
AdapterReturn ==
    /\ \E i \in DOMAIN tasks :
        /\ tasks[i].st = "in_adapter"
        /\ \E v \in AdapterReturns(tasks[i].req.d["method"].s) :
            tasks' = [tasks EXCEPT ![i] = handler_returns(tasks[i], v)]
    /\ UNCHANGED <<pc, request_data, ready, http, call_vars>>

\* the adapter call raises
AdapterRaise ==
    /\ \E i \in DOMAIN tasks :
        /\ tasks[i].st = "in_adapter"
        /\ \E e \in AdapterRaises(tasks[i].req.d["method"].s,
                                   GetOr(tasks[i].req, "params", EmptyDict)) :
            tasks' = [tasks EXCEPT ![i] = handler_raises(tasks[i], e)]
    /\ UNCHANGED <<pc, request_data, ready, http, call_vars>>

\* handle_rpc after process_request
RespondSingle ==
    /\ pc = "single"
    /\ Finished(tasks[1])
    /\ http' = IF tasks[1].st = "raised"
               THEN parse_error_response
               ELSE single_response(tasks[1].ret)
    /\ pc' = "done"
    /\ UNCHANGED <<request_data, tasks, ready, call_vars>>

\* handle_rpc after process_batch_request: gather hands over the returns
\* of the tasks in the order of its arguments, or the exception of a task
RespondBatch ==
    /\ pc = "batch"
    /\ \A i \in DOMAIN tasks : Finished(tasks[i])
    /\ http' = IF \E i \in DOMAIN tasks : tasks[i].st = "raised"
               THEN parse_error_response
               ELSE batch_response([i \in DOMAIN tasks |-> tasks[i].ret])
    /\ pc' = "done"
    /\ UNCHANGED <<request_data, tasks, ready, call_vars>>

\* the response is sent and the endpoint waits for the next request; nothing
\* of a request outlives it
NextRequest ==
    /\ pc = "done"
    /\ pc' = "idle"
    /\ request_data' = None
    /\ tasks' = <<>>
    /\ ready' = <<>>
    /\ http' = NoResponse
    /\ UNCHANGED call_vars

Next ==
    \/ ReceiveUnparseable
    \/ ReceiveSingle
    \/ ReceiveBatch
    \/ TaskStart
    \/ AdapterReturn
    \/ AdapterRaise
    \/ RespondSingle
    \/ RespondBatch
    \/ NextRequest

Spec == Init /\ [][Next]_vars

(***************************************************************************)
(* handle_exception on its own: every exception class of the hierarchy     *)
(* with every message text, for both values of include_traceback.          *)
(***************************************************************************)
ExcMessages ==
    {"", TXT.CHART_MISSING, TXT.SET_TYPE_FAILED, TXT.SET_TYPE_CHART_MISSING,
     TXT.NO_APP, TXT.LOWER_CHART_MISSING, TXT.UPPER_CHART_TYPE,
     TXT.FILE_MISSING, TXT.REVERSED}

Exceptions == {Exc(cls, msg) : cls \in DOMAIN ExcBase, msg \in ExcMessages}

InitExc ==
    /\ pc = "idle"
    /\ request_data = None
    /\ tasks = <<>>
    /\ ready = <<>>
    /\ http = NoResponse
    /\ exc_in \in [exception : Exceptions, id : {None, PyInt(1)},
                   include_traceback : BOOLEAN]
    /\ exc_out = None
    /\ ser_in = None
    /\ ser_out = None
    /\ chart_in = None
    /\ chart_out = None

CallHandleException ==
    /\ exc_out = None
    /\ exc_out' = handle_exception(exc_in.exception, exc_in.id,
                                   exc_in.include_traceback)
    /\ UNCHANGED <<pc, request_data, tasks, ready, http, exc_in, ser_in,
                   ser_out, chart_in, chart_out>>

NextExc == CallHandleException

SpecExc == InitExc /\ [][NextExc]_vars

(***************************************************************************)
(* to_serializable, from_json_value and json_dumps on their own: one       *)
(* value, serialized, serialized again, restored, and written as JSON.     *)
(***************************************************************************)
MaxRows == 2       \* most rows of a table
MaxCols == 2       \* most columns of a table

\* Values without parts: primitives, dates, an object of a class
\* to_serializable does not know, numpy scalars
Leaves ==
    {None, PyBool(TRUE), PyInt(42), PyFloat("3.14"), PyStr("hello"),
     PyDate("2023-01-01"), PyDateTime("2023-01-01T12:30:45"),
     PyObject("Decimal", "1.5"),
     NpInteger(32, 42), NpInteger(64, 42), NpFloating(32, "3.14"),
     NpFloating(64, "3.14"), NpBool(TRUE)}

\* Sequences and mappings around a leaf, one and two levels deep
Containers ==
    UNION {{PyList(<<x>>), PyTuple(<<x, PyInt(1)>>), PyDict([k |-> x]),
            PyList(<<PyDict([k |-> x])>>), PyDict([k |-> PyList(<<x>>)])} :
           x \in Leaves}

\* Mappings with keys that are no str: an int, None, a bool, a tuple, a
\* date, an int next to a str; one of them inside a mapping and inside a
\* list
KeyedMappings ==
    LET keyed == {PyDictOf(k :> PyStr("v")) :
                    k \in {PyInt(1), None, PyBool(TRUE), PyFloat("1.5"),
                           PyTuple(<<PyInt(1), PyInt(2)>>),
                           PyDate("2023-01-01")}}
                 \cup {PyDictOf((PyInt(1) :> PyStr("v"))
                                @@ (PyStr("k") :> PyDate("2023-01-01")))}
    IN  keyed \cup {PyDict([k |-> m]) : m \in keyed}
              \cup {PyList(<<m>>) : m \in keyed}

\* A list that holds itself, a mapping that holds itself, a list held by
\* a list it holds
Cyclic ==
    {PyList(<<Ref(1)>>), PyDict([self |-> Ref(1)]),
     PyList(<<PyInt(1), PyList(<<Ref(2)>>)>>)}

Arrays ==
    {NdArray(<<NpInteger(64, 1), NpInteger(64, 2), NpInteger(64, 3)>>),
     NdArray(<<NdArray(<<NpFloating(64, "1.5")>>),
               NdArray(<<NpFloating(64, "2.5")>>)>>),
     NdArray(<<NpBool(TRUE), NpBool(FALSE)>>)}

\* The label of row or column n: a position, a name, a date
Label(kind, n) ==
    CASE kind = "int" -> NpInteger(64, n - 1)
      [] kind = "str" -> PyStr("L" \o ToString(n))
      [] kind = "date" -> PyDateTime("2023-01-0" \o ToString(n))

\* The cell of row r and column c: numbers, text, numbers in the first
\* column and text in the others, dates
Cell(kind, r, c) ==
    CASE kind = "int" -> NpInteger(64, 10 * r + c)
      [] kind = "str" -> PyStr("v" \o ToString(10 * r + c))
      [] kind = "mixed" ->
            IF c = 1 THEN PyInt(r) ELSE PyStr("v" \o ToString(10 * r + c))
      [] kind = "float" -> NpFloating(64, ToString(r) \o "." \o ToString(c))
      [] kind = "date" -> PyDateTime("2024-01-0" \o ToString(10 * r + c))

Table(rows, cols, rk, ck, vk) ==
    DataFrame([r \in 1..rows |-> Label(rk, r)],
              [c \in 1..cols |-> Label(ck, c)],
              [r \in 1..rows |-> NdArray([c \in 1..cols |-> Cell(vk, r, c)])])

Tables ==
    {Table(rows, cols, rk, ck, vk) :
        rows \in 0..MaxRows, cols \in 1..MaxCols,
        rk \in {"int", "str", "date"}, ck \in {"str", "int"},
        vk \in {"int", "str", "mixed", "float", "date"}}

SeriesValues ==
    {Series([r \in 1..rows |-> Label(rk, r)],
            [r \in 1..rows |-> Cell(vk, r, 1)]) :
        rows \in 0..MaxRows, rk \in {"int", "str"}, vk \in {"int", "str"}}

\* The handles with every read succeeding
AppA ==
    Handle("App",
        [pid |-> AttrValue(PyInt(1)),
         version |-> AttrValue(PyObject("VersionNumber", "16.0")),
         visible |-> AttrValue(PyBool(TRUE)),
         calculation |-> AttrValue(PyStr("automatic")),
         screen_updating |-> AttrValue(PyBool(TRUE)),
         display_alerts |-> AttrValue(PyBool(FALSE))])

\* A chart on a sheet: parent and parent.book are what the truth tests of
\* lines 263 and 265 see
ChartC1(parent, book) ==
    Handle("Chart",
        [k \in {"name", "chart_type", "parent", "parent.name", "parent.book",
                "parent.book.name", "left", "top", "width", "height"} |->
            CASE k = "name" -> AttrValue(PyStr("Chart 1"))
              [] k = "chart_type" -> AttrValue(PyStr("line"))
              [] k = "parent" -> AttrValue(parent)
              [] k = "parent.name" -> AttrValue(PyStr("Sheet1"))
              [] k = "parent.book" -> AttrValue(book)
              [] k = "parent.book.name" -> AttrValue(PyStr("x.xlsx"))
              [] k = "left" -> AttrValue(PyFloat("10.0"))
              [] k = "top" -> AttrValue(PyFloat("20.0"))
              [] k = "width" -> AttrValue(PyFloat("300.0"))
              [] k = "height" -> AttrValue(PyFloat("200.0"))])

\* one handle of each type; a chart with its sheet and book as the truth
\* tests see them, with a sheet that has no book, and with no sheet
BaseHandles ==
    LET sheet == PyObject("Sheet", "<Sheet [x.xlsx]Sheet1>")
        book == PyObject("Book", "<Book [x.xlsx]>")
    IN  {AppA, BookB1, SheetS1, RangeA1(PyInt(1)),
         ChartC1(sheet, book), ChartC1(sheet, None), ChartC1(None, None)}

\* The exceptions a read of the platform binding raises
ReadFailures ==
    {Exc("Exception", TXT.HOST), Exc("KeyError", TXT.MISSING_VALUE),
     Exc("KeyError", TXT.KEY)}

\* The handle with the reads of failing raising e
WithFailures(handle, failing, e) ==
    Handle(handle.t,
        [k \in DOMAIN handle.attrs |->
            IF k \in failing THEN AttrRaises(e) ELSE handle.attrs[k]])

Handles ==
    {WithFailures(h, failing, e) :
        <<h, failing>> \in UNION {{h} \X SUBSET DOMAIN h.attrs :
                                   h \in BaseHandles},
        e \in ReadFailures}

SerInputs ==
    Leaves \cup Containers \cup KeyedMappings \cup Cyclic \cup Arrays \cup Tables
    \cup SeriesValues \cup Handles

\* a call that has not been made
Pending == [t |-> "pending"]

InitSer ==
    /\ pc = "idle"
    /\ request_data = None
    /\ tasks = <<>>
    /\ ready = <<>>
    /\ http = NoResponse
    /\ exc_in = None
    /\ exc_out = None
    /\ ser_in \in SerInputs
    /\ ser_out = [ret |-> Pending, again |-> Pending, back |-> Pending,
                  text |-> Pending]
    /\ chart_in = None
    /\ chart_out = None

\* ret = to_serializable(obj)
CallToSerializable ==
    /\ ser_out.ret = Pending
    /\ ser_out' = [ser_out EXCEPT !.ret = to_serializable(ser_in)]
    /\ UNCHANGED <<pc, request_data, tasks, ready, http, exc_in, exc_out,
                   ser_in, chart_in, chart_out>>

\* to_serializable(ret)
CallToSerializableAgain ==
    /\ ser_out.ret # Pending
    /\ ~Raised(ser_out.ret)
    /\ ser_out.again = Pending
    /\ ser_out' = [ser_out EXCEPT !.again = to_serializable(ser_out.ret)]
    /\ UNCHANGED <<pc, request_data, tasks, ready, http, exc_in, exc_out,
                   ser_in, chart_in, chart_out>>

\* from_json_value(ret)
CallFromJsonValue ==
    /\ ser_out.ret # Pending
    /\ ~Raised(ser_out.ret)
    /\ ser_out.back = Pending
    /\ ser_out' = [ser_out EXCEPT !.back = from_json_value(ser_out.ret)]
    /\ UNCHANGED <<pc, request_data, tasks, ready, http, exc_in, exc_out,
                   ser_in, chart_in, chart_out>>

\* json_dumps(obj)
CallJsonDumps ==
    /\ ser_out.text = Pending
    /\ ser_out' = [ser_out EXCEPT !.text = json_dumps(ser_in)]
    /\ UNCHANGED <<pc, request_data, tasks, ready, http, exc_in, exc_out,
                   ser_in, chart_in, chart_out>>

NextSer ==
    \/ CallToSerializable
    \/ CallToSerializableAgain
    \/ CallFromJsonValue
    \/ CallJsonDumps

SpecSer == InitSer /\ [][NextSer]_vars

(***************************************************************************)
(* adapters/chart_adapter.py: the names of the chart types                 *)
(***************************************************************************)
\* CHART_TYPE_MAPPING, lines 20-46: logical name :> name on macOS
CHART_TYPE_MAPPING ==
    ("column" :> "column_clustered") @@
    ("column_stacked" :> "column_stacked") @@
    ("column_stacked_100" :> "column_stacked_100_percent") @@
    ("bar" :> "bar_clustered") @@ ("bar_stacked" :> "bar_stacked") @@
    ("bar_stacked_100" :> "bar_stacked_100_percent") @@
    ("line" :> "line") @@ ("line_markers" :> "line_markers") @@
    ("line_stacked" :> "line_stacked") @@
    ("line_stacked_100" :> "line_stacked_100_percent") @@
    ("pie" :> "pie") @@ ("doughnut" :> "doughnut") @@
    ("scatter" :> "scatter_markers") @@ ("area" :> "area") @@
    ("area_stacked" :> "area_stacked") @@
    ("area_stacked_100" :> "area_stacked_100_percent") @@
    ("radar" :> "radar") @@ ("bubble" :> "bubble") @@
    ("3d_column" :> "3d_column") @@ ("3d_bar" :> "3d_bar") @@
    ("3d_line" :> "3d_line") @@ ("3d_pie" :> "3d_pie") @@
    ("3d_area" :> "3d_area")

\* MACOS_CHART_TYPES, lines 49-73
MACOS_CHART_TYPES ==
    {"area", "area_stacked", "area_stacked_100_percent", "bar_clustered",
     "bar_stacked", "bar_stacked_100_percent", "bubble", "column_clustered",
     "column_stacked", "column_stacked_100_percent", "doughnut", "line",
     "line_markers", "line_stacked", "line_stacked_100_percent", "pie",
     "radar", "scatter_markers", "3d_area", "3d_bar", "3d_column",
     "3d_line", "3d_pie"}

\* the same function with the mapping applied on every platform
get_platform_chart_type_any_platform(platform, chart_type) ==
    IF chart_type \in DOMAIN CHART_TYPE_MAPPING
    THEN [ret |-> CHART_TYPE_MAPPING[chart_type], warned |-> FALSE]
    ELSE [ret |-> chart_type,
          warned |-> chart_type \notin MACOS_CHART_TYPES]

\* ChartAdapter.get_platform_chart_type, lines 81-108, under sys.platform;
\* warned: logger.warning was called
get_platform_chart_type(platform, chart_type) ==
    IF platform = "darwin"
    THEN IF chart_type \in DOMAIN CHART_TYPE_MAPPING
         THEN [ret |-> CHART_TYPE_MAPPING[chart_type], warned |-> FALSE]
         ELSE IF chart_type \in MACOS_CHART_TYPES
         THEN [ret |-> chart_type, warned |-> FALSE]
         ELSE [ret |-> chart_type, warned |-> TRUE]
    ELSE [ret |-> chart_type, warned |-> FALSE]

(***************************************************************************)
(* get_platform_chart_type called alone                                    *)
(***************************************************************************)
\* every name of the two tables, and names of neither
ChartTypes ==
    DOMAIN CHART_TYPE_MAPPING \cup MACOS_CHART_TYPES
        \cup {"histogram", "waterfall", "Column", ""}

InitChart ==
    /\ pc = "idle"
    /\ request_data = None
    /\ tasks = <<>>
    /\ ready = {}
    /\ http = None
    /\ exc_in = None
    /\ exc_out = None
    /\ ser_in = None
    /\ ser_out = None
    /\ chart_in \in [platform : {"darwin", "win32", "linux"},
                      chart_type : ChartTypes]
    /\ chart_out = None

CallGetPlatformChartType ==
    /\ chart_out = None
    /\ chart_out' = get_platform_chart_type(chart_in.platform,
                                            chart_in.chart_type)
    /\ UNCHANGED <<pc, request_data, tasks, ready, http, exc_in, exc_out,
                   ser_in, ser_out, chart_in>>

NextChart == CallGetPlatformChartType

SpecChart == InitChart /\ [][NextChart]_vars

(***************************************************************************)
(* ChartAdapter.set_chart_type called alone (chart_adapter.py 394-497).    *)
(* chart_in holds the arguments and the host as the call finds it:         *)
(*   screen_updating  the application's flag before the call               *)
(*   pid              the pid argument (None: the book is looked up by     *)
(*                    xw.Book and the application is book.app)             *)
(*   has_app          hasattr(book, 'app')                                 *)
(* chart_out holds the position of the call (at), the application's flag   *)
(* as the host holds it now (screen_updating), and the locals app,         *)
(* screen_updating_state and platform_chart_type.  A read or a write of    *)
(* the host may raise; a write that raises leaves the flag as it was.      *)
(***************************************************************************)
InitScreen ==
    /\ pc = "idle"
    /\ request_data = None
    /\ tasks = <<>>
    /\ ready = {}
    /\ http = None
    /\ exc_in = None
    /\ exc_out = None
    /\ ser_in = None
    /\ ser_out = None
    /\ chart_in \in [screen_updating : BOOLEAN,
                      pid : {None, PyInt(1)},
                      has_app : BOOLEAN,
                      platform : {"darwin", "win32"},
                      chart_type : {"line", "histogram"}]
    /\ chart_out = [at |-> "called",
                    screen_updating |-> chart_in.screen_updating,
                    app |-> FALSE,
                    screen_updating_state |-> None,
                    platform_chart_type |-> None]

\* lines 413-442: the sheet, the application, the book and the chart are
\* looked up, then the chart type is mapped.  Any lookup may raise, and the
\* outer handler (494-497) re-raises it as a ValueError.
SctLookup ==
    /\ chart_out.at = "called"
    /\ \/ chart_out' = [chart_out EXCEPT !.at = "raised"]
       \/ chart_out' =
              [chart_out EXCEPT
                  !.at = "found",
                  !.app = IF chart_in.pid # None THEN TRUE
                          ELSE chart_in.has_app,
                  !.platform_chart_type =
                      PyStr(get_platform_chart_type(
                                chart_in.platform,
                                chart_in.chart_type).ret)]
    /\ UNCHANGED <<pc, request_data, tasks, ready, http, exc_in, exc_out,
                   ser_in, ser_out, chart_in>>

\* lines 447-454: the flag is saved and switched off; a failure is logged
SctDisable ==
    /\ chart_out.at = "found"
    /\ IF ~chart_out.app
       THEN chart_out' = [chart_out EXCEPT !.at = "disabled"]
       ELSE \/ \* the read at 450 raises
               chart_out' = [chart_out EXCEPT !.at = "disabled"]
            \/ \* the write at 451 raises
               chart_out' =
                   [chart_out EXCEPT
                       !.at = "disabled",
                       !.screen_updating_state =
                           PyBool(chart_out.screen_updating)]
            \/ chart_out' =
                   [chart_out EXCEPT
                       !.at = "disabled",
                       !.screen_updating_state =
                           PyBool(chart_out.screen_updating),
                       !.screen_updating = FALSE]
    /\ UNCHANGED <<pc, request_data, tasks, ready, http, exc_in, exc_out,
                   ser_in, ser_out, chart_in>>

\* lines 457-480: the chart type is assigned twice; an assignment that
\* raises becomes a ValueError
SctSetType ==
    /\ chart_out.at = "disabled"
    /\ \E failed \in BOOLEAN :
           chart_out' =
               [chart_out EXCEPT
                   !.at = IF failed THEN "set_failed" ELSE "set"]
    /\ UNCHANGED <<pc, request_data, tasks, ready, http, exc_in, exc_out,
                   ser_in, ser_out, chart_in>>

\* lines 481-493: the finally block writes the saved state, then False,
\* then True; the first write that raises ends the block (490-491).  Then
\* the call returns, or the ValueError of line 480 goes on.
SctFinally ==
    /\ chart_out.at \in {"set", "set_failed"}
    /\ \E written \in 0..3 :
           /\ (~chart_out.app \/ chart_out.screen_updating_state = None)
                  => written = 0
           /\ chart_out' =
                  [chart_out EXCEPT
                      !.at = IF chart_out.at = "set" THEN "returned"
                             ELSE "raised",
                      !.screen_updating =
                          CASE written = 0 -> chart_out.screen_updating
                            [] written = 1 ->
                                   chart_out.screen_updating_state.b
                            [] written = 2 -> FALSE
                            [] written = 3 -> TRUE]
    /\ UNCHANGED <<pc, request_data, tasks, ready, http, exc_in, exc_out,
                   ser_in, ser_out, chart_in>>

NextScreen ==
    \/ SctLookup
    \/ SctDisable
    \/ SctSetType
    \/ SctFinally

SpecScreen == InitScreen /\ [][NextScreen]_vars

(***************************************************************************)
(* Properties                                                              *)
(***************************************************************************)
\* The envelope carries jsonrpc "2.0" and a method
WellFormed(req) ==
    /\ req.t = "dict"
    /\ "jsonrpc" \in DOMAIN req.d
    /\ req.d["jsonrpc"] = PyStr("2.0")
    /\ "method" \in DOMAIN req.d

\* The envelope names a method of the registry
NamesRegistered(req) ==
    /\ WellFormed(req)
    /\ req.d["method"].t = "str"
    /\ req.d["method"].s \in DOMAIN method_dispatcher

CarriesId(req) == req.t = "dict" /\ "id" \in DOMAIN req.d

IsError(envelope, code) ==
    /\ "error" \in DOMAIN envelope
    /\ envelope.error.code = code

\* handle_rpc has answered a single (non-array) request
SingleDone == pc = "done" /\ Len(tasks) = 1 /\ request_data.t # "list"

\* handle_rpc has answered a non-empty batch
BatchDone == pc = "done" /\ request_data.t = "list" /\ Len(tasks) > 0

\* C1: a well-formed notification (no id) of a registered method whose
\* handler returns normally gets no response from process_request, the
\* handler has run exactly once, and sent alone the endpoint answers 204
\* with no body.
C1_NotificationSuppressed ==
    /\ \A i \in DOMAIN tasks :
        (/\ NamesRegistered(tasks[i].req)
         /\ ~CarriesId(tasks[i].req)
         /\ tasks[i].hres = "returned")
        => (/\ tasks[i].st = "returned"
            /\ tasks[i].ret = None
            /\ tasks[i].calls = 1)
    /\ (/\ SingleDone
        /\ NamesRegistered(tasks[1].req)
        /\ ~CarriesId(tasks[1].req)
        /\ tasks[1].hres = "returned")
       => (http.status = 204 /\ http.kind = "none" /\ http.body = <<>>)

C1_Witness ==
    /\ SingleDone
    /\ NamesRegistered(tasks[1].req)
    /\ ~CarriesId(tasks[1].req)
    /\ tasks[1].hres = "returned"
    /\ tasks[1].calls = 1
    /\ http.status = 204

\* C2: a well-formed notification of a registered method whose handler
\* raises gets exactly one error response, with id null, from
\* process_request; sent alone, that envelope is the body of the answer.
C2_FailedNotificationAnswered ==
    /\ \A i \in DOMAIN tasks :
        (/\ NamesRegistered(tasks[i].req)
         /\ ~CarriesId(tasks[i].req)
         /\ tasks[i].hres = "raised")
        => (/\ tasks[i].st = "returned"
            /\ tasks[i].ret # None
            /\ "error" \in DOMAIN tasks[i].ret
            /\ "result" \notin DOMAIN tasks[i].ret
            /\ tasks[i].ret.id = None)
    /\ (/\ SingleDone
        /\ NamesRegistered(tasks[1].req)
        /\ ~CarriesId(tasks[1].req)
        /\ tasks[1].hres = "raised")
       => (http.kind = "object" /\ http.body = <<tasks[1].ret>>)

C2_Witness ==
    /\ SingleDone
    /\ NamesRegistered(tasks[1].req)
    /\ ~CarriesId(tasks[1].req)
    /\ tasks[1].hres = "raised"
    /\ http.kind = "object"
    /\ "error" \in DOMAIN http.body[1]

\* Every entry of the batch carries an id that is not null, and no two
\* entries carry the same
DistinctIds ==
    /\ \A i \in DOMAIN tasks :
        CarriesId(tasks[i].req) /\ tasks[i].req.d["id"] # None
    /\ \A i, j \in DOMAIN tasks :
        i # j => tasks[i].req.d["id"] # tasks[j].req.d["id"]

\* C3: in the array returned for a batch whose entries carry pairwise
\* distinct ids, each entry's response appears once, and the response of an
\* earlier entry stands before the response of a later one.
C3_BatchOrder ==
    (BatchDone /\ DistinctIds /\ http.kind = "array")
    => /\ \A i \in DOMAIN tasks :
            Cardinality({a \in DOMAIN http.body :
                http.body[a].id = tasks[i].req.d["id"]}) = 1
       /\ \A i, j \in DOMAIN tasks :
            i < j =>
                \E a, b \in DOMAIN http.body :
                    /\ a < b
                    /\ http.body[a].id = tasks[i].req.d["id"]
                    /\ http.body[b].id = tasks[j].req.d["id"]

C3_Witness ==
    /\ BatchDone
    /\ DistinctIds
    /\ http.kind = "array"
    /\ Len(tasks) >= 2
    /\ Len(http.body) = Len(tasks)
    /\ \E i \in DOMAIN tasks : tasks[i].hres = "returned"

\* C4: the empty array is answered with one invalid-request error object
\* with id null, not an array, and no handler runs.
C4_EmptyBatch ==
    (pc = "done" /\ request_data = PyList(<<>>))
    => /\ http.status = 200
       /\ http.kind = "object"
       /\ Len(http.body) = 1
       /\ IsError(http.body[1], -32600)
       /\ "result" \notin DOMAIN http.body[1]
       /\ http.body[1].id = None
       /\ tasks = <<>>

C4_Witness ==
    /\ pc = "done"
    /\ request_data = PyList(<<>>)
    /\ http.kind = "object"

\* C5: a payload that is not an object, lacks jsonrpc, has a jsonrpc other
\* than "2.0" or lacks method gets the invalid-request error from
\* process_request, with the payload's id when it is an object carrying one
\* and null otherwise, and no handler runs.
C5_InvalidRequest ==
    \A i \in DOMAIN tasks :
        (tasks[i].st # "ready" /\ ~WellFormed(tasks[i].req))
        => /\ tasks[i].st = "returned"
           /\ IsError(tasks[i].ret, -32600)
           /\ tasks[i].ret.id =
                IF CarriesId(tasks[i].req) THEN tasks[i].req.d["id"] ELSE None
           /\ tasks[i].calls = 0
           /\ tasks[i].hres = "none"

C5_Witness ==
    /\ SingleDone
    /\ tasks[1].req.t = "dict"
    /\ "method" \notin DOMAIN tasks[1].req.d
    /\ CarriesId(tasks[1].req)
    /\ tasks[1].req.d["id"] = PyInt(1)
    /\ IsError(http.body[1], -32600)
    /\ http.body[1].id = PyInt(1)

\* The method of the envelope can be looked up (it is not a JSON array or
\* object) and is no key of the registry
NamesUnknown(req) ==
    /\ WellFormed(req)
    /\ req.d["method"].t \notin {"list", "dict"}
    /\ ~(/\ req.d["method"].t = "str"
         /\ req.d["method"].s \in DOMAIN method_dispatcher)

\* C6: a well-formed envelope whose method is no key of the registry gets
\* the method-not-found error from process_request, with the request's id
\* (null for a notification), and no handler runs.
C6_MethodNotFound ==
    \A i \in DOMAIN tasks :
        (tasks[i].st # "ready" /\ NamesUnknown(tasks[i].req))
        => /\ tasks[i].st = "returned"
           /\ IsError(tasks[i].ret, -32601)
           /\ tasks[i].ret.id =
                IF CarriesId(tasks[i].req) THEN tasks[i].req.d["id"] ELSE None
           /\ tasks[i].calls = 0
           /\ tasks[i].hres = "none"

C6_Witness ==
    /\ SingleDone
    /\ WellFormed(tasks[1].req)
    /\ tasks[1].req.d["method"] = PyStr("chart.list")
    /\ ~CarriesId(tasks[1].req)
    /\ http.kind = "object"
    /\ IsError(http.body[1], -32601)
    /\ http.body[1].id = None

\* An envelope with jsonrpc "2.0" and exactly one of result and error
ResultXorError(envelope) ==
    /\ "jsonrpc" \in DOMAIN envelope
    /\ envelope.jsonrpc = "2.0"
    /\ ("result" \in DOMAIN envelope) # ("error" \in DOMAIN envelope)

\* C7: every envelope process_request returns, and every envelope in a body
\* the endpoint writes, carries jsonrpc "2.0" and exactly one of result and
\* error.
C7_ResultXorError ==
    /\ \A i \in DOMAIN tasks :
        (tasks[i].st = "returned" /\ tasks[i].ret # None)
        => ResultXorError(tasks[i].ret)
    /\ \A a \in DOMAIN http.body : ResultXorError(http.body[a])

C7_Witness ==
    /\ BatchDone
    /\ http.kind = "array"
    /\ \E a, b \in DOMAIN http.body :
        /\ "result" \in DOMAIN http.body[a]
        /\ "error" \in DOMAIN http.body[b]

\* C8: a request carrying an id whose handler returns v gets a success
\* envelope with the request's id whose result is to_serializable(v).
C8_ResultSerialized ==
    \A i \in DOMAIN tasks :
        (/\ tasks[i].hres = "returned"
         /\ CarriesId(tasks[i].req)
         /\ tasks[i].req.d["id"] # None)
        => /\ tasks[i].ret # None
           /\ "result" \in DOMAIN tasks[i].ret
           /\ tasks[i].ret.id = tasks[i].req.d["id"]
           /\ tasks[i].ret.result = to_serializable(tasks[i].hval)

\* The code of handle_exception for an exception of this class, when the
\* class alone decides it
CodeOfClass(cls) ==
    CASE cls \in {"XlwingsError", "NoSuchObjectError"} -> -32004
      [] cls \in {"ConnectionError", "ConnectionRefusedError"} -> -32000
      [] cls = "FileNotFoundError" -> -32001
      [] cls = "PermissionError" -> -32005
      [] cls = "TimeoutError" -> -32006
      [] OTHER -> -32603

\* C9: handle_exception maps the exception's class to the code: xlwings
\* error -32004, connection failure -32000, missing file -32001, invalid
\* argument one of the three codes of the message inspection, permission
\* failure -32005, timeout -32006, anything else -32603 with a message that
\* contains the failure text; id and include_traceback change neither.
C9_Classification ==
    exc_out # None =>
        LET e == exc_in.exception
        IN  /\ "error" \in DOMAIN exc_out
            /\ IF e.cls \in {"ValueError", "UnicodeError"}
               THEN exc_out.error.code \in {-32007, -32008, -32602}
               ELSE exc_out.error.code = CodeOfClass(e.cls)
            /\ exc_out.error.code = -32603
               => Contains(exc_out.error.message, e.msg)
            /\ exc_out.id = exc_in.id
            /\ ("data" \in DOMAIN exc_out.error) = exc_in.include_traceback

C9_Witness ==
    /\ exc_out # None
    /\ exc_in.exception.cls = "FileNotFoundError"
    /\ exc_in.exception.msg = TXT.FILE_MISSING
    /\ exc_out.error.code = -32001

\* C10: for a ValueError the message decides: "Chart" and "not found" both
\* in it give -32007; otherwise "chart type" in it gives -32008; otherwise
\* -32602.  A message with all three gives -32007.
C10_ValueErrorMessage ==
    (exc_out # None /\ exc_in.exception.cls \in {"ValueError", "UnicodeError"})
    => LET msg == exc_in.exception.msg
           chart == Contains(msg, "Chart")
           missing == Contains(msg, "not found")
           type == Contains(msg, "chart type")
       IN  /\ exc_out.error.code =
                IF chart /\ missing THEN -32007
                ELSE IF type THEN -32008
                ELSE -32602
           /\ exc_out.error.message = msg

C10_Witness ==
    /\ exc_out # None
    /\ exc_in.exception = Exc("ValueError", TXT.SET_TYPE_CHART_MISSING)
    /\ exc_out.error.code = -32007

\* The task ran the handler of this method
Calls(task, method) ==
    /\ NamesRegistered(task.req)
    /\ task.req.d["method"] = PyStr(method)
    /\ task.calls = 1

\* C11: a book.open request whose path names a file that does not exist is
\* answered with an error response whose code is -32001.
C11_MissingFileCode ==
    \A i \in DOMAIN tasks :
        (/\ Calls(tasks[i], "book.open")
         /\ tasks[i].hres = "raised"
         /\ tasks[i].exc = open_book_missing_file)
        => /\ tasks[i].st = "returned"
           /\ tasks[i].ret # None
           /\ IsError(tasks[i].ret, -32001)

\* C12: an app.quit request whose pid matches no running application is
\* answered with an error response whose code is -32000 or -32004, and
\* process_request returns an envelope instead of raising.
C12_UnknownPidCode ==
    \A i \in DOMAIN tasks :
        (/\ Calls(tasks[i], "app.quit")
         /\ tasks[i].hres = "raised"
         /\ tasks[i].exc = quit_app_unknown_pid)
        => /\ tasks[i].st = "returned"
           /\ tasks[i].ret # None
           /\ \/ IsError(tasks[i].ret, -32000)
              \/ IsError(tasks[i].ret, -32004)

\* C13: for every representable value x, to_serializable applied to
\* to_serializable(x) gives to_serializable(x) again.
C13_Idempotent ==
    ser_out # None /\ ser_out.again # Pending
    => ser_out.again = ser_out.ret

\* C14: to_serializable returns for every input, a list or mapping that
\* contains itself and an object of an unknown class included; it never
\* raises.
C14_Total ==
    ser_out # None /\ ser_out.ret # Pending => ~Raised(ser_out.ret)

\* The two tables have the same row labels, column labels and cells, in
\* the same order
SameTable(a, b) ==
    /\ a.t = "DataFrame"
    /\ b.t = "DataFrame"
    /\ tolist(a.index) = tolist(b.index)
    /\ tolist(a.columns) = tolist(b.columns)
    /\ tolist(a.values) = tolist(b.values)

\* null, a boolean, a number or a string
JsonPrimitive(x) ==
    x.t \in {"None", "bool", "int", "float", "str", "np.integer",
             "np.floating", "np.bool_"}

\* Every label and every cell of the table is a JSON primitive
PrimitiveTable(df) ==
    /\ \A r \in DOMAIN df.index : JsonPrimitive(df.index[r])
    /\ \A c \in DOMAIN df.columns : JsonPrimitive(df.columns[c])
    /\ \A r \in DOMAIN df.values :
        \A c \in DOMAIN df.values[r].cells :
            JsonPrimitive(df.values[r].cells[c])

Restored == ser_out # None /\ ser_out.back # Pending

NumpyScalars ==
    {x \in Leaves : x.t \in {"np.integer", "np.floating", "np.bool_"}}

\* The native number or boolean of a numpy scalar, and its JSON text
Native(x) ==
    CASE x.t = "np.integer" -> PyInt(x.i)
      [] x.t = "np.floating" -> PyFloat(x.r)
      [] x.t = "np.bool_" -> PyBool(x.b)

NativeJson(x) ==
    CASE x.t = "np.integer" -> ToString(x.i)
      [] x.t = "np.floating" -> x.r
      [] x.t = "np.bool_" -> IF x.b THEN "true" ELSE "false"

\* v == native in Python: the same value, or the float subclass holding it
EqualsNative(v, native) ==
    \/ v = native
    \/ v.t = "np.floating" /\ v.bits = 64 /\ native = PyFloat(v.r)

\* C16: a numpy scalar, alone or inside a list or a mapping, is serialized
\* to the native number or boolean of the same value, and json_dumps
\* writes a JSON number or boolean for it.
C16_NumpyScalarNative ==
    ser_out # None =>
    \A x \in NumpyScalars :
        /\ (ser_in = x /\ ser_out.ret # Pending)
           => EqualsNative(ser_out.ret, Native(x))
        /\ (ser_in = x /\ ser_out.text # Pending)
           => ser_out.text = PyStr(NativeJson(x))
        /\ (ser_in = PyList(<<x>>) /\ ser_out.ret # Pending)
           => /\ ser_out.ret.t = "list"
              /\ EqualsNative(ser_out.ret.xs[1], Native(x))
        /\ (ser_in = PyList(<<x>>) /\ ser_out.text # Pending)
           => ser_out.text = PyStr("[" \o NativeJson(x) \o "]")
        /\ (ser_in = PyDict([k |-> x]) /\ ser_out.ret # Pending)
           => /\ ser_out.ret.t = "dict"
              /\ EqualsNative(ser_out.ret.d["k"], Native(x))
        /\ (ser_in = PyDict([k |-> x]) /\ ser_out.text # Pending)
           => ser_out.text = PyStr("{\"k\": " \o NativeJson(x) \o "}")

IsHandle(x) == x.t \in {"App", "Book", "Sheet", "Range", "Chart"}

\* The keys of the attribute map of each handle type
FieldKeys(type) ==
    CASE type = "App" ->
            {"id", "version", "visible", "calculation", "screen_updating",
             "display_alerts"}
      [] type = "Book" -> {"name", "fullname", "path", "app_id", "sheets"}
      [] type = "Sheet" -> {"name", "book_name", "index", "used_range"}
      [] type = "Range" ->
            {"address", "sheet_name", "book_name", "value", "formula",
             "shape", "row", "column", "row_height", "column_width"}
      [] type = "Chart" ->
            {"name", "chart_type", "sheet_name", "book_name", "left", "top",
             "width", "height"}

\* The attribute reads a field is filled from, the last one giving its value
FieldReads(type, key) ==
    CASE type = "App" /\ key = "id" -> <<"pid">>
      [] type = "Book" /\ key = "path" -> <<"fullname">>
      [] type = "Book" /\ key = "app_id" -> <<"app", "app.pid">>
      [] type = "Sheet" /\ key = "book_name" -> <<"book.name">>
      [] type = "Sheet" /\ key = "used_range" -> <<"used_range.address">>
      [] type = "Chart" /\ key = "sheet_name" -> <<"parent", "parent.name">>
      [] type = "Chart" /\ key = "book_name" ->
            <<"parent", "parent.book", "parent.book.name">>
      [] OTHER -> <<key>>

\* The value a field holds for a read that failed
FieldSentinel(key) ==
    CASE key \in {"name", "version", "calculation", "address",
                  "chart_type"} -> PyStr("unknown")
      [] key = "sheets" -> EmptyList
      [] OTHER -> None

\* C17: serializing a handle never raises, whichever reads fail with
\* whichever exception: the result is an attribute map in which a field
\* with a failed read holds its sentinel and a field whose reads succeeded
\* holds the value read.
C17_ReadsGuarded ==
    (ser_out # None /\ IsHandle(ser_in) /\ ser_out.ret # Pending)
    => /\ ~Raised(ser_out.ret)
       /\ ser_out.ret.t = "dict"
       /\ \A key \in FieldKeys(ser_in.t) \cap DOMAIN ser_out.ret.d :
            LET reads == FieldReads(ser_in.t, key)
                last == ser_in.attrs[reads[Len(reads)]]
            IN  IF \E j \in DOMAIN reads : ~ser_in.attrs[reads[j]].ok
                THEN ser_out.ret.d[key] = FieldSentinel(key)
                ELSE ser_out.ret.d[key] = last.val

\* C18: the attribute map of a handle has the keys of its type, whatever
\* the reads give; a Chart has name, chart_type, sheet_name, book_name,
\* left, top, width and height also when its parent, or the book of its
\* parent, is empty.
C18_FixedKeys ==
    (/\ ser_out # None
     /\ IsHandle(ser_in)
     /\ ser_out.ret # Pending
     /\ ~Raised(ser_out.ret))
    => DOMAIN ser_out.ret.d = FieldKeys(ser_in.t)

\* C19: on darwin a name of MACOS_CHART_TYPES comes back unchanged, a name
\* of CHART_TYPE_MAPPING comes back as its entry, every other name comes
\* back unchanged; on every other platform every name comes back unchanged.
C19_PlatformChartType ==
    chart_out # None =>
        LET t == chart_in.chart_type
        IN  IF chart_in.platform = "darwin"
            THEN /\ t \in MACOS_CHART_TYPES => chart_out.ret = t
                 /\ t \in DOMAIN CHART_TYPE_MAPPING
                        => chart_out.ret = CHART_TYPE_MAPPING[t]
                 /\ t \notin MACOS_CHART_TYPES \cup DOMAIN CHART_TYPE_MAPPING
                        => chart_out.ret = t
            ELSE chart_out.ret = t

\* a logical name was translated on darwin, and left alone elsewhere
C19_Witness ==
    /\ chart_out # None
    /\ chart_in.chart_type = "column"
    /\ \/ chart_in.platform = "darwin" /\ chart_out.ret = "column_clustered"
       \/ chart_in.platform = "win32" /\ chart_out.ret = "column"

(***************************************************************************)
(* What a JSON reader (json.loads, RFC 8259) makes of a text: the          *)
(* yardstick of the bodies.  A parse is [ok, val, next]: the value read    *)
(* and the index behind it.                                                *)
(***************************************************************************)
Ch(text, i) == IF i >= 1 /\ i <= Len(text) THEN SubSeq(text, i, i) ELSE ""

Sub(text, i, j) == IF i >= 1 /\ j <= Len(text) THEN SubSeq(text, i, j) ELSE ""

Digits == {"0", "1", "2", "3", "4", "5", "6", "7", "8", "9"}

NoParse == [ok |-> FALSE]

Parsed(val, next) == [ok |-> TRUE, val |-> val, next |-> next]

\* the first index from i on whose character is not in chars
SkipChars(text, i, chars) ==
    CHOOSE j \in i..(Len(text) + 1) :
        /\ Ch(text, j) \notin chars
        /\ \A k \in i..(j - 1) : Ch(text, k) \in chars

SkipWs(text, i) == SkipChars(text, i, {" "})

\* the number of backslashes right before index j
BackslashesBefore(text, j) ==
    CHOOSE n \in 0..(j - 1) :
        /\ Ch(text, j - 1 - n) # "\\"
        /\ \A m \in 0..(n - 1) : Ch(text, j - 1 - m) = "\\"

\* index j holds the quote that closes a string
ClosesString(text, j) ==
    Ch(text, j) = "\"" /\ BackslashesBefore(text, j) % 2 = 0

\* the characters of a string between its quotes, escapes undone; the
\* escapes of control characters are kept as they are written
RECURSIVE Unescaped(_)
Unescaped(raw) ==
    IF ~Contains(raw, "\\") THEN [ok |-> TRUE, s |-> raw]
    ELSE LET k == CHOOSE j \in 1..Len(raw) :
                    Ch(raw, j) = "\\" /\ \A m \in 1..(j - 1) : Ch(raw, m) # "\\"
             e == Ch(raw, k + 1)
             rest == Unescaped(Sub(raw, k + 2, Len(raw)))
         IN  IF e \in {"\"", "\\", "/"} /\ rest.ok
             THEN [ok |-> TRUE, s |-> Sub(raw, 1, k - 1) \o e \o rest.s]
             ELSE IF e \in {"b", "f", "n", "r", "t", "u"} /\ rest.ok
             THEN [ok |-> TRUE, s |-> Sub(raw, 1, k - 1) \o "\\" \o e \o rest.s]
             ELSE [ok |-> FALSE]

\* a string whose opening quote is at index i
ParseString(text, i) ==
    IF \E j \in (i + 1)..Len(text) : ClosesString(text, j)
    THEN LET j == CHOOSE c \in (i + 1)..Len(text) :
                    /\ ClosesString(text, c)
                    /\ \A k \in (i + 1)..(c - 1) : ~ClosesString(text, k)
             u == Unescaped(Sub(text, i + 1, j - 1))
         IN  IF u.ok THEN Parsed(PyStr(u.s), j + 1) ELSE NoParse
    ELSE NoParse

RECURSIVE DigitsValue(_)
DigitsValue(s) ==
    IF s = "" THEN 0
    ELSE 10 * DigitsValue(Sub(s, 1, Len(s) - 1))
         + (CHOOSE d \in 0..9 : ToString(d) = Ch(s, Len(s)))

\* a number that starts at index i: an int, or a float by its text
ParseNumber(text, i) ==
    LET first == IF Ch(text, i) = "-" THEN i + 1 ELSE i
        after == SkipChars(text, first, Digits)
        frac == SkipChars(text, after + 1, Digits)
        whole == DigitsValue(Sub(text, first, after - 1))
    IN  IF after = first THEN NoParse
        ELSE IF Ch(text, after) = "."
        THEN (IF frac = after + 1 THEN NoParse
              ELSE Parsed(PyFloat(Sub(text, i, frac - 1)), frac))
        ELSE Parsed(PyInt(IF first = i THEN whole ELSE 0 - whole), after)

RECURSIVE ParseValue(_, _), ParseElements(_, _, _), ParseMembers(_, _, _)
ParseValue(text, i) ==
    LET c == Ch(text, i)
    IN  CASE c = "{" -> ParseMembers(text, SkipWs(text, i + 1), <<>>)
          [] c = "[" -> ParseElements(text, SkipWs(text, i + 1), <<>>)
          [] c = "\"" -> ParseString(text, i)
          [] c = "-" \/ c \in Digits -> ParseNumber(text, i)
          [] Sub(text, i, i + 3) = "null" -> Parsed(None, i + 4)
          [] Sub(text, i, i + 3) = "true" -> Parsed(PyBool(TRUE), i + 4)
          [] Sub(text, i, i + 4) = "false" -> Parsed(PyBool(FALSE), i + 5)
          [] OTHER -> NoParse

\* the elements of an array from index i on, acc the elements read so far
ParseElements(text, i, acc) ==
    IF Ch(text, i) = "]" /\ acc = <<>> THEN Parsed(PyList(acc), i + 1)
    ELSE LET v == ParseValue(text, i)
             j == SkipWs(text, v.next)
         IN  IF ~v.ok THEN NoParse
             ELSE IF Ch(text, j) = ","
             THEN ParseElements(text, SkipWs(text, j + 1), Append(acc, v.val))
             ELSE IF Ch(text, j) = "]"
             THEN Parsed(PyList(Append(acc, v.val)), j + 1)
             ELSE NoParse

\* the members of an object from index i on, acc the members read so far
ParseMembers(text, i, acc) ==
    IF Ch(text, i) = "}" /\ acc = <<>> THEN Parsed(PyDict(acc), i + 1)
    ELSE IF Ch(text, i) # "\"" THEN NoParse
    ELSE LET key == ParseString(text, i)
             colon == SkipWs(text, key.next)
             v == ParseValue(text, SkipWs(text, colon + 1))
             j == SkipWs(text, v.next)
             members == (key.val.s :> v.val) @@ acc
         IN  IF ~key.ok THEN NoParse
             ELSE IF Ch(text, colon) # ":" THEN NoParse
             ELSE IF ~v.ok THEN NoParse
             ELSE IF Ch(text, j) = ","
             THEN ParseMembers(text, SkipWs(text, j + 1), members)
             ELSE IF Ch(text, j) = "}"
             THEN Parsed(PyDict(members), j + 1)
             ELSE NoParse

\* json.loads(text): the value, when the whole text is one JSON value
json_loads(text) ==
    LET v == ParseValue(text, SkipWs(text, 1))
    IN  IF v.ok /\ SkipWs(text, v.next) = Len(text) + 1
        THEN [ok |-> TRUE, val |-> v.val]
        ELSE NoParse

\* a Python value as the JSON value a correct encoder writes for it: a
\* tuple is an array
RECURSIVE AsJson(_)
AsJson(v) ==
    CASE v.t \in {"list", "tuple"} ->
            PyList([j \in DOMAIN v.xs |-> AsJson(v.xs[j])])
      [] v.t = "dict" -> PyDict([k \in DOMAIN v.d |-> AsJson(v.d[k])])
      [] OTHER -> v

\* the response envelope as a JSON value
EnvelopeJson(response) ==
    PyDict([k \in DOMAIN response |->
        CASE k = "jsonrpc" -> PyStr(response.jsonrpc)
          [] k = "error" ->
                PyDict([f \in DOMAIN response.error |->
                    CASE f = "code" -> PyInt(response.error.code)
                      [] f = "message" -> PyStr(response.error.message)
                      [] OTHER -> AsJson(response.error[f])])
          [] OTHER -> AsJson(response[k])])

\* what was built for the body of the response
BuiltJson ==
    IF http.kind = "object" THEN EnvelopeJson(http.body[1])
    ELSE PyList([j \in DOMAIN http.body |-> EnvelopeJson(http.body[j])])

\* C20: every body the endpoint writes is well-formed JSON and decodes to
\* the envelope (or the array of envelopes) that was built: None as null,
\* booleans as true and false, every string as the same string.
C20_BodyDecodes ==
    http.status = 200
        => json_loads(http.content) = [ok |-> TRUE, val |-> BuiltJson]

\* C21: a valid request that names a method of ChartMethods reaches its
\* handler and is never answered with method-not-found.
C21_ChartMethodsResolvable ==
    \A i \in DOMAIN tasks :
        (/\ tasks[i].st # "ready"
         /\ WellFormed(tasks[i].req)
         /\ tasks[i].req.d["method"] \in {PyStr(m) : m \in ChartMethodNames})
        => /\ tasks[i].calls = 1
           /\ ~(tasks[i].st = "returned" /\ IsError(tasks[i].ret, -32601))

\* The entry is a notification (no id, or the id null) of a registered
\* method whose handler returned: no response is due for it
Suppressed(task) ==
    /\ NamesRegistered(task.req)
    /\ Get(task.req, "id") = None
    /\ task.hres = "returned"

\* C22: a non-empty batch whose entries are all notifications with a
\* successful handler is answered with status 204 and no body; every other
\* non-empty batch is answered with an array that holds one element for
\* each entry that is not such a notification.
C22_BatchBody ==
    BatchDone =>
        IF \A i \in DOMAIN tasks : Suppressed(tasks[i])
        THEN http.status = 204 /\ http.kind = "none" /\ http.content = ""
        ELSE /\ http.status = 200
             /\ http.kind = "array"
             /\ Len(http.body)
                    = Cardinality({i \in DOMAIN tasks : ~Suppressed(tasks[i])})

\* every key of every mapping inside v is a str
RECURSIVE StrKeys(_)
StrKeys(v) ==
    CASE v.t \in {"list", "tuple"} -> \A j \in DOMAIN v.xs : StrKeys(v.xs[j])
      [] v.t = "dict" ->
            /\ "keyed" \in DOMAIN v => \A k \in DOMAIN v.d : k.t = "str"
            /\ \A k \in DOMAIN v.d : StrKeys(v.d[k])
      [] OTHER -> TRUE

\* C23: the value to_serializable returns for a mapping has only str keys,
\* at every depth, and under each key the serialized value of the input.
C23_KeysCoerced ==
    (ser_in.t = "dict" /\ ser_out.ret # Pending /\ ~Raised(ser_out.ret))
    => /\ ser_out.ret.t = "dict"
       /\ StrKeys(ser_out.ret)
       /\ \A k \in DOMAIN ser_in.d :
            \E n \in DOMAIN ser_out.ret.d :
                ser_out.ret.d[n] = to_serializable(ser_in.d[k])

\* C24: in every reachable state at most one handler is inside an adapter
\* (host) call.
C24_OneHostCall ==
    Cardinality({i \in DOMAIN tasks : tasks[i].st = "in_adapter"}) <= 1

\* the first entry of a batch is inside its adapter call while the second,
\* which will call an adapter too, has not started
C24_Witness ==
    /\ pc = "batch"
    /\ Len(tasks) >= 2
    /\ tasks[1].st = "in_adapter"
    /\ tasks[2].st = "ready"
    /\ NamesRegistered(tasks[2].req)

C25_CallableAsDispatched ==
    \A i \in DOMAIN tasks :
        (tasks[i].st # "ready" /\ NamesRegistered(tasks[i].req))
        => /\ tasks[i].calls = 1
           /\ tasks[i].exc \notin {Exc("TypeError", TXT.ARGS),
                                   Exc("TypeError", TXT.EXTRA_ARGS)}

\* r answers the entry of the task by itself: invalid-request for an entry
\* that is no well-formed envelope, method-not-found for an unknown name,
\* the value or the error of its own handler otherwise, under its own id
AnswersEntry(task, r) ==
    /\ r.jsonrpc = "2.0"
    /\ r.id = (IF task.req.t = "dict" THEN Get(task.req, "id") ELSE None)
    /\ IF ~WellFormed(task.req) THEN IsError(r, -32600)
       ELSE IF NamesUnknown(task.req) THEN IsError(r, -32601)
       ELSE IF task.hres = "returned"
       THEN "result" \in DOMAIN r /\ r.result = task.hval
       ELSE "error" \in DOMAIN r /\ "result" \notin DOMAIN r

\* C26: a non-empty batch of N entries is answered with N responses less
\* one for each successful notification, and every other entry (malformed,
\* unknown method, failed or successful handler) has its own response in
\* its place, whatever the other entries are.
C26_EntriesIndependent ==
    BatchDone =>
        LET due == {i \in DOMAIN tasks : ~Suppressed(tasks[i])}
            place(i) == Cardinality({j \in due : j <= i})
            N == Len(tasks)
        IN  /\ Len(http.body) = N - Cardinality(DOMAIN tasks \ due)
            /\ due # {} => http.kind = "array"
            /\ \A i \in due : AnswersEntry(tasks[i], http.body[place(i)])

\* The request names a registered method and carries non-empty params
\* that are a positional sequence or lack a key its handler reads
BadParams(req) ==
    /\ NamesRegistered(req)
    /\ "params" \in DOMAIN req.d
    /\ Truthy(req.d["params"])
    /\ \/ req.d["params"].t \in {"list", "tuple"}
       \/ /\ req.d["params"].t = "dict"
          /\ ~(RequiredKeys(req.d["method"].s) \subseteq DOMAIN req.d["params"].d)

\* C28: a request for a registered method whose non-empty params lack a
\* required key, or are a positional sequence, is answered with the error
\* code -32603 (not -32602), and its handler never reaches the adapter.
C28_BadParamsInternalError ==
    \A i \in DOMAIN tasks :
        (tasks[i].st # "ready" /\ BadParams(tasks[i].req))
        => /\ tasks[i].st = "returned"
           /\ IsError(tasks[i].ret, -32603)
           /\ tasks[i].ret.id = Get(tasks[i].req, "id")
           /\ tasks[i].hres # "returned"
           /\ tasks[i].exc \notin AdapterRaises(tasks[i].req.d["method"].s,
                                                FullParams)

\* range.get without "address" (and without "book" and "sheet") has been
\* answered
C28_Witness ==
    /\ SingleDone
    /\ BadParams(tasks[1].req)
    /\ tasks[1].req.d["method"] = PyStr("range.get")
    /\ tasks[1].req.d["params"] = PartialParams
    /\ tasks[1].exc.cls = "KeyError"
    /\ http.kind = "object"
    /\ IsError(http.body[1], -32603)

\* The envelopes of the state: what the tasks returned and what was sent
Responses ==
    {tasks[i].ret : i \in {j \in DOMAIN tasks : tasks[j].st = "returned"}}
        \cup {http.body[a] : a \in DOMAIN http.body}

\* The adapter of a sheet.* or range.* handler failed for the task
LookupFailed(task) ==
    /\ NamesRegistered(task.req)
    /\ SubSeq(task.req.d["method"].s, 1, 6) \in {"sheet.", "range."}
    /\ task.calls = 1
    /\ task.st = "returned"
    /\ task.hres = "raised"
    /\ ~BadParams(task.req)

\* No response carries -32002 or -32003
NoSheetOrRangeCode ==
    \A r \in Responses :
        (r # None /\ "error" \in DOMAIN r) => r.error.code \notin {-32002, -32003}

\* C29 as amended: no response carries -32002 or -32003; a failed sheet or
\* range lookup is answered with the code the text of its ValueError
\* gives: -32007 when the text holds "Chart" and "not found", else -32008
\* when it holds "chart type", else -32602.
C29_LookupFailureByMessage ==
    /\ NoSheetOrRangeCode
    /\ \A i \in DOMAIN tasks :
        LookupFailed(tasks[i]) =>
            LET text == tasks[i].ret.error.message
            IN  /\ "error" \in DOMAIN tasks[i].ret
                /\ tasks[i].ret.error.code =
                    IF Contains(text, "Chart") /\ Contains(text, "not found")
                    THEN -32007
                    ELSE IF Contains(text, "chart type") THEN -32008
                    ELSE -32602

\* sheet.get for Sheet1 failed on the host and was answered with -32602
C29_Witness ==
    /\ SingleDone
    /\ LookupFailed(tasks[1])
    /\ tasks[1].req.d["method"] = PyStr("sheet.get")
    /\ tasks[1].req.d["params"] = FullParams
    /\ http.kind = "object"
    /\ IsError(http.body[1], -32602)

\* C29: no response carries -32002 or -32003, and a failed sheet or range
\* lookup of a registered sheet.* or range.* handler is answered with
\* -32602.
C29_LookupFailureInvalidParams ==
    /\ NoSheetOrRangeCode
    /\ \A i \in DOMAIN tasks :
        LookupFailed(tasks[i]) => IsError(tasks[i].ret, -32602)


\* C30: when set_chart_type has returned or raised, the application's
\* screen_updating flag equals the value it had before the call, whether
\* that value was true or false.
C30_ScreenUpdatingRestored ==
    chart_out.at \in {"returned", "raised"}
        => chart_out.screen_updating = chart_in.screen_updating

====
